---- MODULE Spec2Model ----
(***************************************************************************)
(* Hexicord gateway client (src/src/hexicord/gateway_client.cpp) as a      *)
(* state machine.  The client is single threaded: its execution is a call  *)
(* stack of frames, and a step of the model is the code of the top frame   *)
(* up to its next call, blocking read or io_service::run_one().  The       *)
(* gateway, the heartbeat timer and the link act only while the client is  *)
(* blocked or idle, which loses no behaviour of a single-threaded client.  *)
(***************************************************************************)
EXTENDS Integers, Sequences, FiniteSets, TLC

VARIABLES
    poll,                 \* GatewayClient::poll
    skipMessages,         \* GatewayClient::skipMessages
    lastMessage,          \* GatewayClient::lastMessage
    heartbeat,            \* GatewayClient::heartbeat
    heartbeatIntervalMs,  \* GatewayClient::heartbeatIntervalMs
    unansweredHeartbeats, \* GatewayClient::unansweredHeartbeats (unsigned)
    heartbeatTimer,       \* pending wait of heartbeatTimer: 0 none, else the interval it was armed with
    sessionId_,           \* GatewayClient::sessionId_ (0 is the empty string)
    lastSequenceNumber_,  \* GatewayClient::lastSequenceNumber_
    gatewayConnection,    \* "null", or "open" once the handshake is done
    ioService,            \* the io_service: ready handlers, armed reads, stopped flag
    gateway,              \* the transport and the gateway behind it
    stack,                \* the client's call stack, top frame last
    status,               \* "alive", "aborted" (assert) or "crashed" (null dereference)
    app,                  \* the application: calls made, the current call and its result
    log,                  \* history: messages sent, processed and dispatched, in order
    queue,                \* RatelimitLock::queue: the list of RatelimitInfo nodes
    ratelimitPointers,    \* RatelimitLock::ratelimitPointers: route -> node of queue
    now,                  \* std::time(nullptr), in seconds
    lockCall,             \* the call of RatelimitLock in progress, and whether the lock is intact
    restConnection,       \* RestClient::restConnection
    restCall,             \* the call of RestClient::sendRestRequest in progress, and its history
    restThreads,          \* per thread: its call of sendRestRequest, and the connection its request went out on
    identifyCall,         \* the arguments of a connect and the Identify message it built from them
    eventDispatcher       \* EventDispatcher: handlers, unknownEventHandlers, and the calls of the last dispatch

\* The gateway client with its io_service, gateway and application.
gatewayVars == <<poll, skipMessages, lastMessage, heartbeat, heartbeatIntervalMs,
                 unansweredHeartbeats, heartbeatTimer, sessionId_, lastSequenceNumber_,
                 gatewayConnection, ioService, gateway, stack, status, app, log>>

\* The REST client with its rate limit lock.
restVars == <<queue, ratelimitPointers, now, lockCall, restConnection, restCall, restThreads>>

\* The Identify message on its own.
identifyVars == <<identifyCall>>

\* The event dispatcher on its own.
dispatcherVars == <<eventDispatcher>>

vars == <<poll, skipMessages, lastMessage, heartbeat, heartbeatIntervalMs,
          unansweredHeartbeats, heartbeatTimer, sessionId_, lastSequenceNumber_,
          gatewayConnection, ioService, gateway, stack, status, app, log,
          queue, ratelimitPointers, now, lockCall, restConnection, restCall, restThreads,
          identifyCall, eventDispatcher>>

(***************************************************************************)
(* Bounds of the model.                                                    *)
(***************************************************************************)
MaxMsgs == 4        \* messages other than Hello the gateway sends
MaxSeq == 2         \* sequence numbers s of Dispatch messages are 1..MaxSeq
MaxCalls == 3       \* connect/resume/disconnect calls made by the application
MaxHandshakes == 5  \* transport handshakes
MaxLinkFailures == 1 \* times the link dies under an open connection
HEXICORD_RATELIMIT_CACHE_SIZE == 2  \* capacity of the rate limit cache (config.hpp; 100 by default)
MaxNodes == 4       \* nodes RatelimitLock::refreshInfo pushes
MaxDowns == 2       \* calls of RatelimitLock::down
MaxTime == 2        \* the clock stops here
MaxRemaining == 2   \* largest remaining a refresh or a response header carries
MaxSends == 2       \* requests one call of sendRestRequest puts on the wire
MaxRestCalls == 2   \* calls of sendRestRequest
MaxThreadCalls == 1 \* calls of sendRestRequest by each of the concurrent threads
MaxShard == 5       \* shard ids and shard counts are NoSharding or 0..MaxShard
MaxHandlers == 3    \* handlers the application registers with the dispatcher
MaxDispatches == 2  \* events dispatched

(***************************************************************************)
(* Program constants.                                                      *)
(***************************************************************************)
EventDispatch == 0
Heartbeat == 1
Identify == 2
Resume == 6
Reconnect == 7
InvalidSession == 9
Hello == 10
HeartbeatAck == 11
NoCloseEvent == -1
NoSharding == -1
DefaultCloseCode == 2000
\* unsigned wraps modulo 2^32; TLC's integers end at 2^31 - 1, so the counter is
\* kept modulo 2^16: it only ever moves by one, and wraps at 0 the same way.
UIntModulus == 65536

\* An op code the client has no case for (OpCode::StatusUpdate arriving from the gateway).
StatusUpdate == 3
\* A frame that is not JSON (a truncated message); not an op code.
Garbage == -2

\* The names eventEnumFromString knows (three of the table suffice here) and one it does not.
KnownEvents == {"READY", "RESUMED", "MESSAGE_CREATE"}
UnknownEventName == "MESSAGE_REACTION_REMOVE"

NullMsg == [id |-> 0, op |-> -1, t |-> "", s |-> 0, d |-> 0]
Msg(id, op, t, s, d) == [id |-> id, op |-> op, t |-> t, s |-> s, d |-> d]

Frame(pc, ev, m, sid, seq, by) ==
    [pc |-> pc, ev |-> ev, m |-> m, sid |-> sid, seq |-> seq, by |-> by]

Entry(k, op, t, id, sid, seq, by) ==
    [k |-> k, op |-> op, t |-> t, id |-> id, sid |-> sid, seq |-> seq, by |-> by]

World ==
    [poll |-> poll, skipMessages |-> skipMessages, lastMessage |-> lastMessage,
     heartbeat |-> heartbeat, heartbeatIntervalMs |-> heartbeatIntervalMs,
     unansweredHeartbeats |-> unansweredHeartbeats, heartbeatTimer |-> heartbeatTimer,
     sessionId_ |-> sessionId_, lastSequenceNumber_ |-> lastSequenceNumber_,
     gatewayConnection |-> gatewayConnection, ioService |-> ioService,
     gateway |-> gateway, stack |-> stack, status |-> status, app |-> app,
     log |-> log, exc |-> "none"]

(***************************************************************************)
(* The rate limit lock and the REST connection as constructed.             *)
(***************************************************************************)
Routes == {"/gateway", "/channels/1", "/users/@me"}

\* ratelimitPointers holds no route.
NoPointers == [r \in {} |-> 0]

\* No call of RatelimitLock is in progress; nothing has been called yet.
NoLockCall ==
    [op |-> "none", route |-> "", pc |-> "idle", hit |-> FALSE, wake |-> 0,
     nodes |-> 0, downs |-> 0, intact |-> TRUE, refreshed |-> <<>>]

\* A map of headers with no header in it.
NoHeaders == [h \in {} |-> ""]

\* std::unordered_map::insert: a key that is present keeps its value.
Insert(headers, name, value) ==
    [h \in DOMAIN headers \cup {name} |-> IF h \in DOMAIN headers THEN headers[h] ELSE value]

\* new REST::HTTPSConnection(ioService, "discordapp.com"): not open yet.
NewConnection(id) ==
    [id |-> id, open |-> FALSE, alive |-> FALSE, connectionHeaders |-> NoHeaders]

\* restConnection after RestClient's constructor.
FirstConnection ==
    [NewConnection(1) EXCEPT !.connectionHeaders = Insert(@, "User-Agent", "DiscordBot")]

\* The defaults of sendRestRequest's parameters.
NoPayload == "null"
NoQuery == [q \in {} |-> ""]
NoMultipart == <<>>

NoArgs ==
    [method |-> "", endpoint |-> "", payload |-> NoPayload, query |-> NoQuery,
     multipart |-> NoMultipart]

\* Nothing has come back from a call yet.
NoResult == [kind |-> "none", statusCode |-> 0, code |-> ""]

\* No call of sendRestRequest is in progress; nothing has been called yet.
\* original, sent and outcomes are the history of the last call by the application:
\* its arguments, the requests put on the wire and what came back for each.
NoRestCall ==
    [pc |-> "idle", args |-> NoArgs, original |-> NoArgs, sent |-> <<>>,
     outcomes |-> <<>>, wake |-> 0, result |-> NoResult, calls |-> 0]

\* enum Event, three of its values.
Events == {"Ready", "MessageCreate", "PresenseUpdate"}

\* The table from event names to enum values.
stringToEnum ==
    [name \in {"READY", "MESSAGE_CREATE", "PRESENSE_UPDATE"} |->
        CASE name = "READY" -> "Ready"
          [] name = "MESSAGE_CREATE" -> "MessageCreate"
          [] name = "PRESENSE_UPDATE" -> "PresenseUpdate"]

\* Names an event can arrive under: the table's, and one it does not hold.
EventNames == DOMAIN stringToEnum \cup {UnknownEventName}

\* Payloads of events.
Payloads == {"p1", "p2"}

\* The dispatcher after construction: no handler for any event.
NoDispatcher ==
    [handlers |-> [e \in Events |-> <<>>], unknownEventHandlers |-> <<>>,
     registered |-> 0, dispatches |-> 0, type |-> "", payload |-> "", calls |-> <<>>]

\* No connect has built an Identify message yet.
NoIdentify ==
    [token |-> "", shardId |-> NoSharding, shardCount |-> NoSharding, initialPresense |-> "",
     message |-> [k \in {} |-> ""]]

\* The threads of the application that call the REST client.
Threads == {1, 2}

\* A thread that has not called yet.
NoThread == [call |-> NoRestCall, conn |-> 0]

Init ==
    /\ poll = TRUE
    /\ skipMessages = FALSE
    /\ lastMessage = NullMsg
    /\ heartbeat = TRUE
    /\ heartbeatIntervalMs = 0
    /\ unansweredHeartbeats = 0
    /\ heartbeatTimer = 0
    /\ sessionId_ = 0
    /\ lastSequenceNumber_ = 0
    /\ gatewayConnection = "null"
    /\ ioService = [handlers |-> <<>>, reads |-> 0, stopped |-> FALSE]
    /\ gateway = [state |-> "none", inbox |-> <<>>, linkUp |-> FALSE, nextId |-> 1, conn |-> 0,
                 fails |-> 0]
    /\ stack = <<>>
    /\ status = "alive"
    /\ app = [calls |-> 0, call |-> "none", last |-> "none", arg |-> 0, mark |-> 0,
              result |-> "none"]
    /\ log = <<>>
    /\ queue = <<>>
    /\ ratelimitPointers = NoPointers
    /\ now = 0
    /\ lockCall = NoLockCall
    /\ restConnection = FirstConnection
    /\ restCall = NoRestCall
    /\ restThreads = [t \in Threads |-> NoThread]
    /\ identifyCall = NoIdentify
    /\ eventDispatcher = NoDispatcher
(***************************************************************************)
(* The call stack.                                                         *)
(***************************************************************************)
Top(w) == w.stack[Len(w.stack)]
SetTop(w, f) == [w EXCEPT !.stack[Len(w.stack)] = f]
Push(w, f) == [w EXCEPT !.stack = Append(@, f)]
Goto(w, pc) == SetTop(w, [Top(w) EXCEPT !.pc = pc])

HandlerPcs ==
    {"asyncHeartbeat_cb", "asyncHeartbeat_rearm", "asyncPoll_cb", "asyncPoll_parse",
     "asyncPoll_try", "asyncPoll_catch", "asyncPoll_rearm"}

\* The io_service has no ready handler and no outstanding asynchronous operation.
NoWork(w) ==
    /\ w.ioService.handlers = <<>>
    /\ w.ioService.reads = 0
    /\ w.heartbeatTimer = 0

\* Leave the top frame, normally or by an exception in flight.  A handler that
\* leaves the io_service without work stops it (io_service::run_one); leaving
\* the last frame ends the application's call with "ok" or with the exception.
Pop(w) ==
    LET f == Top(w)
        rest == SubSeq(w.stack, 1, Len(w.stack) - 1)
        w1 == [w EXCEPT !.stack = rest]
        w2 == IF f.pc \in HandlerPcs /\ NoWork(w1)
              THEN [w1 EXCEPT !.ioService.stopped = TRUE] ELSE w1
    IN IF rest = <<>>
       THEN [w2 EXCEPT !.app.result = IF w.exc = "none" THEN "ok" ELSE w.exc,
                       !.exc = "none"]
       ELSE w2

\* Return from waitForEvent: the caller receives the message whose "d" is returned.
PopRet(w, m) ==
    LET w1 == Pop(w) IN SetTop(w1, [Top(w1) EXCEPT !.m = m])

\* Exception propagation: recoverConnection catches GatewayError around resume,
\* the read callback catches json::parse_error around parse and processMessage.
RECURSIVE Unwind(_)
Unwind(w) ==
    IF w.exc = "none" \/ w.status # "alive" THEN w
    ELSE IF w.stack = <<>> THEN [w EXCEPT !.app.result = w.exc, !.exc = "none"]
    ELSE IF Top(w).pc = "recoverConnection_try" /\ w.exc = "GatewayError"
         THEN [Goto(w, "recoverConnection_catch") EXCEPT !.exc = "none"]
    ELSE IF Top(w).pc = "asyncPoll_try" /\ w.exc = "parse_error"
         THEN [Goto(w, "asyncPoll_catch") EXCEPT !.exc = "none"]
    ELSE Unwind(Pop(w))

(***************************************************************************)
(* The transport (TLSWebSocket) and the io_service operations.             *)
(***************************************************************************)
Aborted(n) == [i \in 1..n |-> [h |-> "read", ec |-> "aborted", m |-> NullMsg]]

\* What the gateway does with a message of the client.  A Resume that names
\* no session the gateway ever opened (the empty session id) can only be rejected.
GwReceive(state, opCode, sid) ==
    IF opCode = Identify THEN "identify"
    ELSE IF opCode = Resume THEN (IF sid # 0 THEN "resume" ELSE "badresume")
    ELSE state

\* The heartbeat interval the gateway announces in the Hello of its n-th connection.
HelloInterval(n) == 40 + n

\* TLSWebSocket::handshake: a new connection, on which the gateway sends Hello.
\* Reads armed on the previous stream complete with operation_aborted.
handshake(w) ==
    [w EXCEPT !.gatewayConnection = "open",
              !.ioService.handlers = @ \o Aborted(w.ioService.reads),
              !.ioService.reads = 0,
              !.gateway = [state |-> "hello",
                           inbox |-> <<Msg(0, Hello, "", 0, HelloInterval(@.conn + 1))>>,
                           linkUp |-> TRUE, nextId |-> @.nextId, conn |-> @.conn + 1,
                           fails |-> @.fails]]

\* gatewayConnection.reset(nullptr): ~TLSWebSocket shuts the stream down.
reset(w) ==
    IF w.gatewayConnection = "null" THEN w
    ELSE [w EXCEPT !.gatewayConnection = "null",
                   !.ioService.handlers = @ \o Aborted(w.ioService.reads),
                   !.ioService.reads = 0,
                   !.gateway.state = "none",
                   !.gateway.inbox = <<>>,
                   !.gateway.linkUp = FALSE]

\* heartbeatTimer.cancel(): a pending wait completes with operation_aborted.
cancel(w) ==
    IF w.heartbeatTimer = 0 THEN w
    ELSE [w EXCEPT !.heartbeatTimer = 0,
                   !.ioService.handlers =
                       Append(@, [h |-> "timer", ec |-> "aborted", m |-> NullMsg])]

asyncHeartbeat(w) ==
    [cancel(w) EXCEPT !.heartbeatTimer = w.heartbeatIntervalMs]

\* asyncPoll: arm one asynchronous read; it completes at once when a message
\* is already waiting or the link is down.
asyncPoll(w) ==
    IF w.gatewayConnection = "null" THEN [w EXCEPT !.status = "crashed"]
    ELSE IF ~w.gateway.linkUp
    THEN [w EXCEPT !.ioService.handlers =
                       Append(@, [h |-> "read", ec |-> "reset", m |-> NullMsg])]
    ELSE IF w.gateway.inbox # <<>>
    THEN [w EXCEPT !.ioService.handlers =
                       Append(@, [h |-> "read", ec |-> "ok", m |-> Head(w.gateway.inbox)]),
                   !.gateway.inbox = Tail(@)]
    ELSE [w EXCEPT !.ioService.reads = @ + 1]

\* sendMessage: a null gatewayConnection is dereferenced (the process dies), a
\* dead link throws boost::system::system_error.
sendMessage(w, opCode, t, sid, seq, by) ==
    IF w.gatewayConnection = "null" THEN [w EXCEPT !.status = "crashed"]
    ELSE IF ~w.gateway.linkUp THEN [w EXCEPT !.exc = "system_error"]
    ELSE [w EXCEPT !.log = Append(@, Entry("send", opCode, t, 0, sid, seq, by)),
                   !.gateway.state = GwReceive(@, opCode, sid)]

disconnect(w, code) ==
    LET w1 == IF code # NoCloseEvent
              THEN [sendMessage(w, EventDispatch, "CLOSE", 0, code, "disconnect")
                       EXCEPT !.exc = "none"]
              ELSE w
        w2 == cancel([w1 EXCEPT !.heartbeat = FALSE])
        w3 == [w2 EXCEPT !.poll = FALSE]
    IN IF w1.status # "alive" THEN w1 ELSE reset(w3)

\* eventEnumFromString: an unknown name fails the assert (debug build) or
\* dereferences the end iterator (release build); both end the process.
eventEnumFromString(str, build) ==
    IF str \in KnownEvents THEN str
    ELSE IF build = "debug" THEN "aborted" ELSE "crashed"

\* EventDispatcher::dispatchEvent: the handlers of the event run, synchronously.
dispatchEvent(w, type, m, by) ==
    [w EXCEPT !.log = Append(@, Entry("dispatch", m.op, type, m.id, 0, m.s, by))]

\* processMessage, run by the frame on top of the stack (its caller is Top.by).
processMessage(w, build) ==
    LET m == Top(w).m
        w0 == [w EXCEPT !.log = Append(@, Entry("process", m.op, m.t, m.id, 0, m.s, Top(w).by))]
    IN CASE m.op = EventDispatch ->
              LET w1 == [w0 EXCEPT !.lastSequenceNumber_ = m.s]
                  e == eventEnumFromString(m.t, build)
              IN IF e \in KnownEvents
                 THEN Pop(dispatchEvent(w1, e, m, "processMessage"))
                 ELSE [w1 EXCEPT !.status = e]
         [] m.op = HeartbeatAck ->
              Pop([w0 EXCEPT !.unansweredHeartbeats = (@ - 1) % UIntModulus])
         [] m.op = Heartbeat ->
              LET w1 == sendMessage(w0, Heartbeat, "", 0, w0.lastSequenceNumber_, "processMessage")
              IN IF w1.exc # "none" \/ w1.status # "alive" THEN w1
                 ELSE Pop([w1 EXCEPT !.unansweredHeartbeats = (@ + 1) % UIntModulus])
         [] m.op = Reconnect ->
              LET w1 == disconnect(w0, DefaultCloseCode)
              IN Push(Goto(w1, "processMessage_ret"),
                      Frame("resume", "", NullMsg, w1.sessionId_, w1.lastSequenceNumber_,
                            "processMessage"))
         [] m.op = InvalidSession -> [w0 EXCEPT !.exc = "GatewayError"]
         [] OTHER -> Pop(w0)

\* sendHeartbeat, called by the timer handler on top of the stack; the handler
\* goes on with asyncHeartbeat() once it returns.
sendHeartbeat(w) ==
    IF w.unansweredHeartbeats >= 2
    THEN Push(Goto(w, "asyncHeartbeat_rearm"),
              Frame("recoverConnection", "", NullMsg, 0, 0, "sendHeartbeat"))
    ELSE LET w1 == sendMessage(w, Heartbeat, "", 0, w.lastSequenceNumber_, "sendHeartbeat")
         IN IF w1.exc # "none" \/ w1.status # "alive" THEN w1
            ELSE Goto([w1 EXCEPT !.unansweredHeartbeats = (@ + 1) % UIntModulus],
                      "asyncHeartbeat_rearm")

(***************************************************************************)
(* Steps of the client.                                                    *)
(***************************************************************************)
Running == status = "alive"
At(pcs) == Running /\ stack # <<>> /\ stack[Len(stack)].pc \in pcs

Commit(w) ==
    LET u == Unwind(w)
    IN /\ poll' = u.poll
       /\ skipMessages' = u.skipMessages
       /\ lastMessage' = u.lastMessage
       /\ heartbeat' = u.heartbeat
       /\ heartbeatIntervalMs' = u.heartbeatIntervalMs
       /\ unansweredHeartbeats' = u.unansweredHeartbeats
       /\ heartbeatTimer' = u.heartbeatTimer
       /\ sessionId_' = u.sessionId_
       /\ lastSequenceNumber_' = u.lastSequenceNumber_
       /\ gatewayConnection' = u.gatewayConnection
       /\ ioService' = u.ioService
       /\ gateway' = u.gateway
       /\ stack' = u.stack
       /\ status' = u.status
       /\ app' = u.app
       /\ log' = u.log
       /\ UNCHANGED <<restVars, identifyVars, dispatcherVars>>

\* A blocking TLSWebSocket::readMessage can return: a message is waiting, or the link is down.
CanRead == gateway.inbox # <<>> \/ ~gateway.linkUp \/ gatewayConnection = "null"

\* json::parse(gatewayConnection->readMessage()): the world after the read, with
\* the message in lastRead, or an exception in flight.
readMessage(w) ==
    IF w.gatewayConnection = "null" THEN [w EXCEPT !.status = "crashed"]
    ELSE IF ~w.gateway.linkUp THEN [w EXCEPT !.exc = "system_error"]
    ELSE IF Head(w.gateway.inbox).op = Garbage
    THEN [w EXCEPT !.gateway.inbox = Tail(@), !.exc = "parse_error"]
    ELSE [w EXCEPT !.gateway.inbox = Tail(@)]

Failed(w) == w.exc # "none" \/ w.status # "alive"

\* The call of waitForEvent(type): skipMessages = true, then the loop.
CallWaitForEvent(w, pc, type) ==
    Push(Goto([w EXCEPT !.skipMessages = TRUE], pc),
         Frame("waitForEvent", type, NullMsg, 0, 0, Top(w).by))

\* The end of connect and of resume: start the heartbeat loop and the read loop.
StartLoops(w) ==
    LET w1 == asyncHeartbeat([w EXCEPT !.heartbeat = TRUE])
    IN asyncPoll([w1 EXCEPT !.poll = TRUE])

connect ==
    /\ At({"connect", "connect_readHello", "connect_ready"})
    /\ LET w == World
           f == Top(w)
       IN CASE f.pc = "connect" ->
                 /\ gatewayConnection = "null" => gateway.conn < MaxHandshakes
                 /\ Commit(Goto(IF gatewayConnection = "null" THEN handshake(w) ELSE w,
                                "connect_readHello"))
            [] f.pc = "connect_readHello" ->
                 /\ CanRead
                 /\ LET w1 == readMessage(w)
                        m == Head(gateway.inbox)
                    IN Commit(
                        IF Failed(w1) THEN w1
                        ELSE IF m.op # Hello THEN [w1 EXCEPT !.exc = "type_error"]
                        ELSE LET w2 == sendMessage([w1 EXCEPT !.heartbeatIntervalMs = m.d],
                                                   Identify, "", 0, 0, f.by)
                             IN IF Failed(w2) THEN w2
                                ELSE CallWaitForEvent(w2, "connect_ready", "READY"))
            [] f.pc = "connect_ready" ->
                 Commit(Pop(StartLoops(
                     [dispatchEvent(w, "READY", f.m, "connect")
                         EXCEPT !.sessionId_ = f.m.d, !.lastSequenceNumber_ = 0])))

\* A resume that keeps the heartbeat interval of the previous connection.
resume_keepsInterval ==
    /\ At({"resume", "resume_readHello", "resume_resumed"})
    /\ LET w == World
           f == Top(w)
       IN CASE f.pc = "resume" ->
                 /\ gateway.conn + (IF gatewayConnection = "null" THEN 2 ELSE 1) <= MaxHandshakes
                 /\ Commit(Goto(handshake(IF gatewayConnection = "null" THEN handshake(w) ELSE w),
                                "resume_readHello"))
            [] f.pc = "resume_readHello" ->
                 /\ CanRead
                 /\ LET w1 == readMessage(w)
                        m == Head(gateway.inbox)
                    IN Commit(
                        IF Failed(w1) THEN w1
                        ELSE LET w2 == sendMessage(w1, Resume, "", f.sid, f.seq, f.by)
                                 hello == IF m.op = Hello THEN m.d ELSE 0
                             IN IF Failed(w2) THEN w2
                                ELSE CallWaitForEvent(
                                         SetTop(w2, [f EXCEPT !.ev = hello]),
                                         "resume_resumed", "RESUMED"))
            [] f.pc = "resume_resumed" ->
                 LET w1 == dispatchEvent(w, "RESUMED", f.m, "resume")
                 IN Commit(
                     IF f.ev = 0 THEN [w1 EXCEPT !.exc = "type_error"]
                     ELSE Pop(StartLoops(
                              [w1 EXCEPT !.sessionId_ = f.sid,
                                         !.lastSequenceNumber_ = f.seq])))

resume ==
    /\ At({"resume", "resume_readHello", "resume_resumed"})
    /\ LET w == World
           f == Top(w)
       IN CASE f.pc = "resume" ->
                 /\ gateway.conn + (IF gatewayConnection = "null" THEN 2 ELSE 1) <= MaxHandshakes
                 /\ Commit(Goto(handshake(IF gatewayConnection = "null" THEN handshake(w) ELSE w),
                                "resume_readHello"))
            [] f.pc = "resume_readHello" ->
                 /\ CanRead
                 /\ LET w1 == readMessage(w)
                        m == Head(gateway.inbox)
                    IN Commit(
                        IF Failed(w1) THEN w1
                        ELSE LET w2 == sendMessage(w1, Resume, "", f.sid, f.seq, f.by)
                                 hello == IF m.op = Hello THEN m.d ELSE 0
                             IN IF Failed(w2) THEN w2
                                ELSE CallWaitForEvent(
                                         SetTop(w2, [f EXCEPT !.ev = hello]),
                                         "resume_resumed", "RESUMED"))
            [] f.pc = "resume_resumed" ->
                 LET w1 == dispatchEvent(w, "RESUMED", f.m, "resume")
                 IN Commit(
                     IF f.ev = 0 THEN [w1 EXCEPT !.exc = "type_error"]
                     ELSE Pop(StartLoops(
                              [w1 EXCEPT !.heartbeatIntervalMs = f.ev,
                                         !.sessionId_ = f.sid,
                                         !.lastSequenceNumber_ = f.seq])))

HandlerFrame(h) ==
    Frame(IF h.h = "timer" THEN "asyncHeartbeat_cb" ELSE "asyncPoll_cb",
          h.ec, h.m, 0, 0, "ioService")

\* io_service::run_one() has a handler to run or returns 0 at once.
CanRunOne(w) ==
    w.ioService.stopped \/ NoWork(w) \/ w.ioService.handlers # <<>>

\* io_service::run_one(), called by the frame on top of the stack: returns 0 when
\* the service is stopped or out of work (and stops it), else runs one handler.
run_one(w) ==
    IF w.ioService.stopped \/ NoWork(w)
    THEN [w EXCEPT !.ioService.stopped = TRUE]
    ELSE Push([w EXCEPT !.ioService.handlers = Tail(@)],
              HandlerFrame(Head(w.ioService.handlers)))

waitForEvent ==
    /\ At({"waitForEvent", "waitForEvent_check"})
    /\ LET w == World
           f == Top(w)
       IN CASE f.pc = "waitForEvent" ->
                 LET w0 == Goto([w EXCEPT !.lastMessage = NullMsg], "waitForEvent_check")
                 IN IF poll
                    THEN /\ CanRunOne(w)
                         /\ Commit(run_one(w0))
                    ELSE /\ CanRead
                         /\ LET w1 == readMessage(w0)
                            IN Commit(IF Failed(w1) THEN w1
                                      ELSE [w1 EXCEPT !.lastMessage = Head(gateway.inbox)])
            [] f.pc = "waitForEvent_check" ->
                 \E build \in {"debug", "release"} :
                    LET m == lastMessage
                        e == eventEnumFromString(m.t, build)
                        toProcess == Push(Goto(w, "waitForEvent"),
                                          Frame("processMessage", "", m, 0, 0, "waitForEvent"))
                    IN Commit(
                        IF m = NullMsg THEN Goto(w, "waitForEvent")
                        ELSE IF m.op # EventDispatch THEN toProcess
                        ELSE IF e \notin KnownEvents THEN [w EXCEPT !.status = e]
                        ELSE IF e = f.ev THEN PopRet([w EXCEPT !.skipMessages = FALSE], m)
                        ELSE toProcess)

processMessageStep ==
    /\ At({"processMessage", "processMessage_ret"})
    /\ IF Top(World).pc = "processMessage"
       THEN \E build \in {"debug", "release"} : Commit(processMessage(World, build))
       ELSE Commit(Pop(World))

\* recoverConnection that calls connect without trying resume first.
recoverConnection_noResume ==
    /\ At({"recoverConnection", "recoverConnection_try", "recoverConnection_catch",
           "recoverConnection_ret"})
    /\ LET w == World
       IN IF Top(w).pc = "recoverConnection"
          THEN Commit(Push(Goto(disconnect(w, NoCloseEvent), "recoverConnection_ret"),
                           Frame("connect", "", NullMsg, 0, 0, "recoverConnection")))
          ELSE Commit(Pop(w))

recoverConnection ==
    /\ At({"recoverConnection", "recoverConnection_try", "recoverConnection_catch",
           "recoverConnection_ret"})
    /\ LET w == World
           f == Top(w)
       IN CASE f.pc = "recoverConnection" ->
                 LET w1 == disconnect(w, NoCloseEvent)
                 IN Commit(Push(SetTop(w1, [f EXCEPT !.pc = "recoverConnection_try",
                                                     !.sid = w.sessionId_,
                                                     !.seq = w.lastSequenceNumber_]),
                                Frame("resume", "", NullMsg, w.sessionId_,
                                      w.lastSequenceNumber_, "recoverConnection")))
            [] f.pc = "recoverConnection_catch" ->
                 Commit(Push(Goto(w, "recoverConnection_ret"),
                             Frame("connect", "", NullMsg, 0, 0, "recoverConnection")))
            [] OTHER -> Commit(Pop(w))

CallRecoverConnection(w, pc, by) ==
    Push(Goto(w, pc), Frame("recoverConnection", "", NullMsg, 0, 0, by))

asyncHeartbeatHandler ==
    /\ At({"asyncHeartbeat_cb", "asyncHeartbeat_rearm"})
    /\ LET w == World
           f == Top(w)
       IN IF f.pc = "asyncHeartbeat_cb"
          THEN Commit(IF f.ev = "aborted" \/ ~heartbeat THEN Pop(w) ELSE sendHeartbeat(w))
          ELSE Commit(Pop(asyncHeartbeat(w)))

\* The try block of the read callback: parse the body, keep it in lastMessage,
\* process it unless skipMessages; a parse error is caught and recovers.
asyncPollParse(w) ==
    LET m == Top(w).m
    IN IF m = NullMsg \/ m.op = Garbage
       THEN CallRecoverConnection(w, "asyncPoll_rearm", "asyncPoll")
       ELSE IF ~w.skipMessages
       THEN Push(Goto([w EXCEPT !.lastMessage = m], "asyncPoll_try"),
                 Frame("processMessage", "", m, 0, 0, "asyncPoll"))
       ELSE Goto([w EXCEPT !.lastMessage = m], "asyncPoll_rearm")

\* The read callback without its check of the poll flag.
asyncPollHandler_noPollCheck ==
    /\ At({"asyncPoll_cb", "asyncPoll_parse", "asyncPoll_try", "asyncPoll_catch",
           "asyncPoll_rearm"})
    /\ LET w == World
           f == Top(w)
       IN CASE f.pc = "asyncPoll_cb" ->
                 Commit(IF f.ev = "reset"
                        THEN CallRecoverConnection(w, "asyncPoll_parse", "asyncPoll")
                        ELSE asyncPollParse(w))
            [] f.pc = "asyncPoll_parse" -> Commit(asyncPollParse(w))
            [] f.pc = "asyncPoll_catch" ->
                 Commit(CallRecoverConnection(w, "asyncPoll_rearm", "asyncPoll"))
            [] OTHER -> Commit(Pop(IF poll THEN asyncPoll(w) ELSE w))

asyncPollHandler ==
    /\ At({"asyncPoll_cb", "asyncPoll_parse", "asyncPoll_try", "asyncPoll_catch",
           "asyncPoll_rearm"})
    /\ LET w == World
           f == Top(w)
       IN CASE f.pc = "asyncPoll_cb" ->
                 Commit(IF ~poll THEN Pop(w)
                        ELSE IF f.ev = "reset"
                        THEN CallRecoverConnection(w, "asyncPoll_parse", "asyncPoll")
                        ELSE asyncPollParse(w))
            [] f.pc = "asyncPoll_parse" -> Commit(asyncPollParse(w))
            [] f.pc = "asyncPoll_catch" ->
                 Commit(CallRecoverConnection(w, "asyncPoll_rearm", "asyncPoll"))
            [] OTHER -> Commit(Pop(IF poll THEN asyncPoll(w) ELSE w))

(***************************************************************************)
(* The application: the public methods, and io_service::run().             *)
(***************************************************************************)
Idle == Running /\ stack = <<>>

\* The application calls a method: its argument, and how long the log was.
AppCall(w, name, arg) ==
    [w EXCEPT !.app = [calls |-> @.calls + 1, call |-> name, last |-> name, arg |-> arg,
                       mark |-> Len(w.log), result |-> "pending"]]

AppConnect ==
    /\ Idle
    /\ app.calls < MaxCalls
    /\ gatewayConnection = "null"
    /\ Commit(Push(AppCall(World, "connect", 0),
                   Frame("connect", "", NullMsg, 0, 0, "app")))

\* resume with what sessionId() and lastSequenceNumber() return.
AppResume ==
    /\ Idle
    /\ app.calls < MaxCalls
    /\ gatewayConnection = "null"
    /\ Commit(Push(AppCall(World, "resume", sessionId_),
                   Frame("resume", "", NullMsg, sessionId_, lastSequenceNumber_, "app")))

AppDisconnect ==
    /\ Idle
    /\ app.calls < MaxCalls
    /\ \E code \in {DefaultCloseCode, NoCloseEvent} :
          Commit([disconnect(AppCall(World, "disconnect", code), code)
                     EXCEPT !.app.result = "ok"])

\* io_service::run() of the application: one handler at a time, until the
\* service is out of work, which stops it.
ios_run ==
    /\ Idle
    /\ ~ioService.stopped
    /\ CanRunOne(World)
    /\ Commit(run_one([World EXCEPT !.app.call = "run", !.app.result = "pending"]))

(***************************************************************************)
(* The environment: the heartbeat timer, the gateway and the link.  It     *)
(* acts while the client is idle or blocked in a read or in run_one().     *)
(***************************************************************************)
Blocked ==
    \/ stack = <<>>
    \/ At({"connect_readHello", "resume_readHello"}) /\ ~CanRead
    \/ At({"waitForEvent"}) /\ (IF poll THEN ioService.stopped \/ ioService.handlers = <<>>
                                         ELSE ~CanRead)

EnvMayAct == Running /\ Blocked

ClientVars ==
    <<poll, skipMessages, lastMessage, heartbeat, heartbeatIntervalMs,
      unansweredHeartbeats, sessionId_, lastSequenceNumber_, gatewayConnection,
      stack, status, app, log>>

TimerExpires ==
    /\ EnvMayAct
    /\ heartbeatTimer # 0
    /\ heartbeatTimer' = 0
    /\ ioService' = [ioService EXCEPT
                        !.handlers = Append(@, [h |-> "timer", ec |-> "ok", m |-> NullMsg])]
    /\ UNCHANGED <<ClientVars, gateway>>
    /\ UNCHANGED <<restVars, identifyVars, dispatcherVars>>

\* The gateway sends one message and moves to state next: an armed read
\* completes with it, otherwise it waits in the inbox.
GwSend(op, t, s, next) ==
    /\ EnvMayAct
    /\ gateway.linkUp
    /\ gateway.nextId <= MaxMsgs
    /\ LET id == gateway.nextId
           m == Msg(id, op, t, s, IF t = "READY" THEN id
                                  ELSE IF op = Hello THEN HelloInterval(gateway.conn)
                                  ELSE 0)
       IN IF ioService.reads > 0
          THEN /\ ioService' = [ioService EXCEPT
                                   !.reads = @ - 1,
                                   !.handlers = Append(@, [h |-> "read", ec |-> "ok", m |-> m])]
               /\ gateway' = [gateway EXCEPT !.state = next, !.nextId = id + 1]
          ELSE /\ gateway' = [gateway EXCEPT !.state = next, !.nextId = id + 1,
                                             !.inbox = Append(@, m)]
               /\ UNCHANGED ioService
    /\ UNCHANGED <<ClientVars, heartbeatTimer>>
    /\ UNCHANGED <<restVars, identifyVars, dispatcherVars>>

\* A gateway that repeats Hello after it invalidated the session.
GwHello ==
    /\ gateway.state = "hello"
    /\ gateway.inbox = <<>>
    /\ GwSend(Hello, "", 0, "hello")

GwReady ==
    /\ gateway.state = "identify"
    /\ GwSend(EventDispatch, "READY", 0, "session")

GwResumed ==
    /\ gateway.state = "resume"
    /\ GwSend(EventDispatch, "RESUMED", 0, "session")

GwInvalidSession ==
    /\ gateway.state \in {"identify", "resume", "badresume", "session"}
    /\ GwSend(InvalidSession, "", 0, "hello")

GwDispatch ==
    /\ gateway.state \in {"resume", "session"}
    /\ \E s \in 1..MaxSeq, t \in {"MESSAGE_CREATE", UnknownEventName} :
          GwSend(EventDispatch, t, s, gateway.state)

GwHeartbeat ==
    /\ gateway.state = "session"
    /\ GwSend(Heartbeat, "", 0, gateway.state)

GwHeartbeatAck ==
    /\ gateway.state = "session"
    /\ GwSend(HeartbeatAck, "", 0, gateway.state)

GwReconnect ==
    /\ gateway.state \in {"identify", "resume", "badresume", "session"}
    /\ GwSend(Reconnect, "", 0, "closing")

GwOther ==
    /\ gateway.state \in {"resume", "session"}
    /\ \E op \in {StatusUpdate, Garbage} : GwSend(op, "", 0, gateway.state)

\* The link dies: armed reads complete with connection_reset, unread data is lost.
LinkDies ==
    /\ EnvMayAct
    /\ gateway.linkUp
    /\ gateway.fails < MaxLinkFailures
    /\ gateway' = [gateway EXCEPT !.linkUp = FALSE, !.inbox = <<>>, !.fails = @ + 1]
    /\ ioService' = [ioService EXCEPT
                        !.reads = 0,
                        !.handlers = @ \o [i \in 1..ioService.reads |->
                                            [h |-> "read", ec |-> "reset", m |-> NullMsg]]]
    /\ UNCHANGED <<ClientVars, heartbeatTimer>>
    /\ UNCHANGED <<restVars, identifyVars, dispatcherVars>>

ClientStep ==
    \/ connect
    \/ resume
    \/ waitForEvent
    \/ processMessageStep
    \/ recoverConnection
    \/ asyncHeartbeatHandler
    \/ asyncPollHandler

Next ==
    \/ connect
    \/ resume
    \/ waitForEvent
    \/ processMessageStep
    \/ recoverConnection
    \/ asyncHeartbeatHandler
    \/ asyncPollHandler
    \/ AppConnect
    \/ AppResume
    \/ AppDisconnect
    \/ ios_run
    \/ TimerExpires
    \/ GwHello
    \/ GwReady
    \/ GwResumed
    \/ GwInvalidSession
    \/ GwDispatch
    \/ GwHeartbeat
    \/ GwHeartbeatAck
    \/ GwReconnect
    \/ GwOther
    \/ LinkDies

Spec == Init /\ [][Next]_vars

(***************************************************************************)
(* Runs against a reachable, well-behaved gateway: the link stays up and   *)
(* the gateway only answers Identify and Resume.  The client's code runs   *)
(* whenever it can, the application keeps the io_service running, and the  *)
(* gateway does not leave an Identify unanswered.                          *)
(***************************************************************************)
FairNext ==
    \/ connect
    \/ resume
    \/ waitForEvent
    \/ processMessageStep
    \/ recoverConnection
    \/ asyncHeartbeatHandler
    \/ asyncPollHandler
    \/ AppConnect
    \/ AppDisconnect
    \/ ios_run
    \/ TimerExpires
    \/ GwReady
    \/ GwResumed
    \/ GwInvalidSession

FairSpec ==
    /\ Init
    /\ [][FairNext]_vars
    /\ WF_vars(ClientStep)
    /\ WF_vars(ios_run)
    /\ WF_vars(GwReady)

(***************************************************************************)
(* Reading the history.                                                    *)
(***************************************************************************)

(***************************************************************************)
(* RatelimitLock: a list of RatelimitInfo nodes and an index from route to *)
(* node.  A node is named by the number of the push that created it.       *)
(***************************************************************************)
RatelimitInfo(route, r, t, resetUnixTime, node) ==
    [route |-> route, remaining |-> r, total |-> t, resetTime |-> resetUnixTime, node |-> node]

\* The rate limit lock: its two containers and the call in progress.
Lock == [queue |-> queue, ratelimitPointers |-> ratelimitPointers, lockCall |-> lockCall]

\* Conversion of an unsigned member to the int that remaining() and total() return.
ToInt(u) == IF u >= UIntModulus \div 2 THEN u - UIntModulus ELSE u

\* The position in q of the node an iterator names.
NodeAt(q, node) == CHOOSE i \in DOMAIN q : q[i].node = node

\* std::list::erase(iterator)
Erase(q, node) == SelectSeq(q, LAMBDA x : x.node # node)

\* std::unordered_map::erase(iterator) and insert
Without(ptrs, route) == [x \in DOMAIN ptrs \ {route} |-> ptrs[x]]
With(ptrs, route, node) ==
    [x \in DOMAIN ptrs \cup {route} |-> IF x = route THEN node ELSE ptrs[x]]

\* it->second of ratelimitPointers.find(route)
Pointee(k, route) == k.queue[NodeAt(k.queue, k.ratelimitPointers[route])]

remaining(route) ==
    IF route \in DOMAIN ratelimitPointers THEN ToInt(Pointee(Lock, route).remaining) ELSE -1

total(route) ==
    IF route \in DOMAIN ratelimitPointers THEN ToInt(Pointee(Lock, route).total) ELSE -1

resetTime(route) ==
    IF route \in DOMAIN ratelimitPointers THEN Pointee(Lock, route).resetTime ELSE -1

\* queue.erase(it->second); ratelimitPointers.erase(it);
Evict(k, route) ==
    [k EXCEPT !.queue = Erase(@, k.ratelimitPointers[route]),
              !.ratelimitPointers = Without(@, route)]

\* A down that takes a request from the quota of every stored route.
downEnter_everyRoute(k, route, t) ==
    LET k0 == [k EXCEPT !.lockCall.op = "down", !.lockCall.route = route,
                        !.lockCall.hit = FALSE, !.lockCall.downs = @ + 1]
    IN IF route \notin DOMAIN k.ratelimitPointers THEN k0
       ELSE LET i == NodeAt(k.queue, k.ratelimitPointers[route])
                r == (k.queue[i].remaining - 1) % UIntModulus
                k1 == [k0 EXCEPT !.queue = [j \in DOMAIN @ |->
                          [@[j] EXCEPT !.remaining = (@ - 1) % UIntModulus]]]
            IN IF r # 0 THEN k1
               ELSE IF k.queue[i].resetTime <= t THEN Evict(k1, route)
               ELSE [k1 EXCEPT !.lockCall.pc = "sleep", !.lockCall.hit = TRUE,
                               !.lockCall.wake = k.queue[i].resetTime]

\* A down that sleeps whenever it takes the last request, whatever the reset time.
downEnter_alwaysSleeps(k, route, t) ==
    LET k0 == [k EXCEPT !.lockCall.op = "down", !.lockCall.route = route,
                        !.lockCall.hit = FALSE, !.lockCall.downs = @ + 1]
    IN IF route \notin DOMAIN k.ratelimitPointers THEN k0
       ELSE LET i == NodeAt(k.queue, k.ratelimitPointers[route])
                r == (k.queue[i].remaining - 1) % UIntModulus
                k1 == [k0 EXCEPT !.queue[i].remaining = r]
            IN IF r # 0 THEN k1
               ELSE [k1 EXCEPT !.lockCall.pc = "sleep", !.lockCall.hit = TRUE,
                               !.lockCall.wake = k.queue[i].resetTime]

\* RatelimitLock::down up to its sleep: at time t, for the lock k.
downEnter(k, route, t) ==
    LET k0 == [k EXCEPT !.lockCall.op = "down", !.lockCall.route = route,
                        !.lockCall.hit = FALSE, !.lockCall.downs = @ + 1]
    IN IF route \notin DOMAIN k.ratelimitPointers THEN k0
       ELSE LET i == NodeAt(k.queue, k.ratelimitPointers[route])
                r == (k.queue[i].remaining - 1) % UIntModulus
                k1 == [k0 EXCEPT !.queue[i].remaining = r]
            IN IF r # 0 THEN k1
               ELSE IF k.queue[i].resetTime <= t THEN Evict(k1, route)
               ELSE [k1 EXCEPT !.lockCall.pc = "sleep", !.lockCall.hit = TRUE,
                               !.lockCall.wake = k.queue[i].resetTime]

\* RatelimitLock::down after its sleep.
downLeave(k) ==
    [Evict(k, k.lockCall.route) EXCEPT !.lockCall.pc = "idle", !.lockCall.wake = 0]

\* RatelimitLock::refreshInfo.  Erasing the end iterator (the front node's route
\* is not in the index) is undefined: the build either faults or erases nothing.
refreshInfo(k, route, r, t, resetUnixTime, ub) ==
    LET node == k.lockCall.nodes + 1
        info == RatelimitInfo(route, r % UIntModulus, t % UIntModulus, resetUnixTime, node)
        k0 == [k EXCEPT !.lockCall.op = "refreshInfo", !.lockCall.route = route,
                        !.lockCall.hit = FALSE, !.lockCall.nodes = node,
                        !.lockCall.refreshed =
                            Append(SelectSeq(@, LAMBDA x : x # route), route)]
    IN IF route \in DOMAIN k.ratelimitPointers
       THEN [k0 EXCEPT !.queue = Append(@, info)]
       ELSE LET full == Len(k.queue) = HEXICORD_RATELIMIT_CACHE_SIZE
                k1 == IF ~full THEN k0
                      ELSE IF k.queue[1].route \in DOMAIN k.ratelimitPointers
                      THEN [k0 EXCEPT !.ratelimitPointers = Without(@, k.queue[1].route),
                                      !.queue = Tail(@)]
                      ELSE IF ub = "fault" THEN [k0 EXCEPT !.lockCall.intact = FALSE]
                      ELSE [k0 EXCEPT !.queue = Tail(@)]
            IN IF ~k1.lockCall.intact THEN k1
               ELSE [k1 EXCEPT !.queue = Append(@, info),
                               !.ratelimitPointers = With(@, route, node)]

\* The quotas a refresh carries: remaining, total, reset time.
Quotas == {<<0, 2, 1>>, <<1, 2, 2>>, <<MaxRemaining, 3, 2>>}

SetLock(k) ==
    /\ queue' = k.queue
    /\ ratelimitPointers' = k.ratelimitPointers
    /\ lockCall' = k.lockCall

LockIdle == lockCall.pc = "idle" /\ lockCall.intact /\ restCall.pc = "idle"

\* The application calls refreshInfo.
LockRefreshInfo ==
    /\ LockIdle
    /\ lockCall.nodes < MaxNodes
    /\ \E route \in Routes, q \in Quotas, ub \in {"fault", "skip"} :
          SetLock(refreshInfo(Lock, route, q[1], q[2], q[3], ub))
    /\ UNCHANGED <<gatewayVars, now, restConnection, restCall, restThreads, identifyVars, dispatcherVars>>

\* The application calls down.
LockDown ==
    /\ LockIdle
    /\ lockCall.downs < MaxDowns
    /\ \E route \in Routes : SetLock(downEnter(Lock, route, now))
    /\ UNCHANGED <<gatewayVars, now, restConnection, restCall, restThreads, identifyVars, dispatcherVars>>

\* A sleep that may return at any time.
LockDownWakes_early ==
    /\ lockCall.pc = "sleep"
    /\ restCall.pc = "idle"
    /\ SetLock(downLeave(Lock))
    /\ UNCHANGED <<gatewayVars, now, restConnection, restCall, restThreads, identifyVars, dispatcherVars>>

\* std::this_thread::sleep_for returns, not before the time slept for has passed.
LockDownWakes ==
    /\ lockCall.pc = "sleep"
    /\ restCall.pc = "idle"
    /\ now >= lockCall.wake
    /\ SetLock(downLeave(Lock))
    /\ UNCHANGED <<gatewayVars, now, restConnection, restCall, restThreads, identifyVars, dispatcherVars>>

\* A second passes.
Tick ==
    /\ now < MaxTime
    /\ now' = now + 1
    /\ UNCHANGED <<gatewayVars, queue, ratelimitPointers, lockCall, restConnection, restCall,
                   restThreads, identifyVars, dispatcherVars>>

LockNext ==
    \/ LockRefreshInfo
    \/ LockDown
    \/ LockDownWakes
    \/ Tick

\* The rate limit lock called directly.
LockSpec == Init /\ [][LockNext]_vars

(***************************************************************************)
(* RestClient::sendRestRequest, built with HEXICORD_RATELIMIT_PREDICTION   *)
(* and without HEXICORD_RATELIMIT_HIT_AS_ERROR.                            *)
(***************************************************************************)
restBasePath == "/api/v6"

Endpoints == {"/gateway", "/channels/1/messages"}

\* Utils::getRatelimitDomain: the route an endpoint is counted under.
getRatelimitDomain(endpoint) ==
    IF endpoint = "/channels/1/messages" THEN "/channels/1" ELSE endpoint

\* Utils::makeQueryString
makeQueryString(query) ==
    IF DOMAIN query = {} THEN "" ELSE "?limit=" \o query["limit"]

\* Utils::urlEncode of the payloads used here.
urlEncode(raw) ==
    IF raw = "{\"content\":\"hi\"}" THEN "%7B%22content%22%3A%22hi%22%7D" ELSE raw

\* operator[] of a headers map followed by an assignment.
Set(headers, name, value) ==
    [h \in DOMAIN headers \cup {name} |-> IF h = name THEN value ELSE headers[h]]

\* One part of a request body.
Part(name, body) == [name |-> name, body |-> body]

prepareRequestBody(request, payload, elements) ==
    IF elements = <<>>
    THEN IF payload = NoPayload \/ payload = "{}" THEN request
         ELSE [request EXCEPT !.headers = Set(@, "Content-Type", "application/json"),
                              !.body = <<Part("", payload)>>]
    ELSE LET actualMultipartElements ==
                 (IF payload # NoPayload /\ payload # "{}"
                  THEN <<Part("payload_json", urlEncode(payload))>> ELSE <<>>) \o elements
         IN [request EXCEPT !.headers = Set(@, "Content-Type", "multipart/form-data"),
                            !.body = actualMultipartElements]

\* The request sendRestRequest builds from its arguments.
HTTPRequest(args) ==
    LET request == [method |-> args.method,
                    path |-> restBasePath \o args.endpoint \o makeQueryString(args.query),
                    version |-> 11, body |-> <<>>, headers |-> NoHeaders]
        prepared == prepareRequestBody(request, args.payload, args.multipart)
    IN [prepared EXCEPT !.headers = Insert(@, "Accept", "application/json")]

\* The REST client, its rate limit lock and the clock.
Rest ==
    [queue |-> queue, ratelimitPointers |-> ratelimitPointers, lockCall |-> lockCall,
     restConnection |-> restConnection, restCall |-> restCall, now |-> now]

LockOf(w) ==
    [queue |-> w.queue, ratelimitPointers |-> w.ratelimitPointers, lockCall |-> w.lockCall]

WithLock(w, k) ==
    [w EXCEPT !.queue = k.queue, !.ratelimitPointers = k.ratelimitPointers,
              !.lockCall = k.lockCall]

\* The call ends: with a value, or with an exception that reaches the caller.
Leave(w, kind, statusCode, code) ==
    [w EXCEPT !.restCall.pc = "idle",
              !.restCall.result = [kind |-> kind, statusCode |-> statusCode, code |-> code]]

isOpen(conn) == conn.open /\ conn.alive

\* HTTPSConnection::open: resolves, connects and shakes hands, or throws.
open(w, ok) ==
    IF ok THEN [w EXCEPT !.restConnection.open = TRUE, !.restConnection.alive = TRUE]
    ELSE Leave(w, "system_error", 0, "connect")

\* sendRestRequest from its entry to the request: opens the connection if
\* needed, builds the request and takes the route's lock.
sendRestRequest(w, args, ok) ==
    LET w1 == IF isOpen(w.restConnection) THEN [w EXCEPT !.restCall.pc = "enter"]
              ELSE open([w EXCEPT !.restCall.pc = "enter"], ok)
    IN IF w1.restCall.pc = "idle" THEN w1
       ELSE LET k == downEnter(LockOf(w1), getRatelimitDomain(args.endpoint), w1.now)
            IN [WithLock(w1, k) EXCEPT
                   !.restCall.args = args,
                   !.restCall.pc = IF k.lockCall.pc = "sleep" THEN "down" ELSE "request"]

\* What comes back for a request: a response, or the error code of a system_error.
Response(statusCode, body, headers) ==
    [kind |-> "response", statusCode |-> statusCode, body |-> body, headers |-> headers,
     code |-> ""]
TransportError(code) ==
    [kind |-> "error", statusCode |-> 0, body |-> "", headers |-> NoHeaders, code |-> code]

\* The error codes after which the request is retried on a new connection.
Dropped == {"end_of_stream", "broken_pipe", "connection_reset"}
ErrorCodes == Dropped \cup {"timed_out"}

QuotaHeaders(r, t, resetUnixTime) ==
    [h \in {"X-RateLimit-Remaining", "X-RateLimit-Limit", "X-RateLimit-Reset"} |->
        IF h = "X-RateLimit-Remaining" THEN ToString(r)
        ELSE IF h = "X-RateLimit-Limit" THEN ToString(t) ELSE ToString(resetUnixTime)]

RetryAfterBody(seconds) == "{\"retry_after\":" \o ToString(seconds) \o "}"

\* The body of an API error: {"code": 10003, "message": "Unknown Channel"}.
UnknownChannelBody == "{\"code\":10003,\"message\":\"Unknown Channel\"}"

\* The responses the server gives.
Responses ==
    { Response(200, "{\"url\":\"wss\"}", NoHeaders),
      Response(200, "{\"url\":\"wss\"}", QuotaHeaders(1, 2, 2)),
      Response(200, "{\"url\":\"wss\"}", Set(NoHeaders, "Connection", "close")),
      Response(204, "", QuotaHeaders(MaxRemaining, 3, 2)),
      Response(404, UnknownChannelBody, NoHeaders),
      Response(404, "", NoHeaders),
      Response(429, RetryAfterBody(1), QuotaHeaders(0, 2, 1)),
      Response(429, RetryAfterBody(2), NoHeaders) }

\* std::stoi and std::stoll of a header's value.
stoi(str) == CHOOSE n \in 0..9 : ToString(n) = str

\* jsonResp["retry_after"].get<unsigned>()
retry_after(body) == CHOOSE n \in 0..9 : RetryAfterBody(n) = body

updateRatelimitsIfPresent(w, endpoint, headers, ub) ==
    LET r == IF "X-RateLimit-Remaining" \in DOMAIN headers
             THEN stoi(headers["X-RateLimit-Remaining"]) % UIntModulus ELSE 0
        limit == IF "X-RateLimit-Limit" \in DOMAIN headers
                 THEN stoi(headers["X-RateLimit-Limit"]) % UIntModulus ELSE 0
        resetUnixTime == IF "X-RateLimit-Reset" \in DOMAIN headers
                         THEN stoi(headers["X-RateLimit-Reset"]) ELSE 0
    IN IF r # 0 /\ limit # 0 /\ resetUnixTime # 0
       THEN WithLock(w, refreshInfo(LockOf(w), getRatelimitDomain(endpoint),
                                    r, limit, resetUnixTime, ub))
       ELSE w

\* A catch block that leaves the old connection's headers behind.
requestThrows_headersLost(w, code, ok) ==
    LET w0 == [w EXCEPT !.restConnection.alive = FALSE]
    IN IF code \notin Dropped THEN Leave(w0, "system_error", 0, code)
       ELSE LET w1 == [w0 EXCEPT !.restConnection = NewConnection(w0.restConnection.id + 1)]
                w2 == open(w1, ok)
            IN IF w2.restCall.pc = "idle" THEN w2
               ELSE sendRestRequest(w2, w2.restCall.args, ok)

\* A catch block that retries a dropped request once and then gives up.
requestThrows_oneRetry(w, code, ok) ==
    LET w0 == [w EXCEPT !.restConnection.alive = FALSE]
    IN IF code \notin Dropped \/ Len(w.restCall.sent) >= 2
       THEN Leave(w0, "system_error", 0, code)
       ELSE LET prevHeaders == w0.restConnection.connectionHeaders
                w1 == [w0 EXCEPT !.restConnection =
                          [NewConnection(w0.restConnection.id + 1) EXCEPT
                              !.connectionHeaders = prevHeaders]]
                w2 == open(w1, ok)
            IN IF w2.restCall.pc = "idle" THEN w2
               ELSE sendRestRequest(w2, w2.restCall.args, ok)

\* HTTPSConnection::request throws: sendRestRequest's catch block.
requestThrows(w, code, ok) ==
    LET w0 == [w EXCEPT !.restConnection.alive = FALSE]
    IN IF code \notin Dropped THEN Leave(w0, "system_error", 0, code)
       ELSE LET prevHeaders == w0.restConnection.connectionHeaders
                w1 == [w0 EXCEPT !.restConnection =
                          [NewConnection(w0.restConnection.id + 1) EXCEPT
                              !.connectionHeaders = prevHeaders]]
                w2 == open(w1, ok)
            IN IF w2.restCall.pc = "idle" THEN w2
               ELSE sendRestRequest(w2, w2.restCall.args, ok)

\* payload["code"] of an error body, -1 without one, and whether it has a "message".
errorCode(body) == IF body = UnknownChannelBody THEN 10003 ELSE -1
hasMessage(body) == body = UnknownChannelBody

\* RestClient::throwRestError: the exception's class by the API error code.
\* None of the bodies here has the {"parameter": ["what is wrong"]} form.
throwRestError(w, response) ==
    LET code == errorCode(response.body)
    IN IF hasMessage(response.body)
       THEN Leave(w, "RESTError", response.statusCode,
                  IF code \div 10000 = 1 THEN "UnknownEntity"
                  ELSE IF code \div 10000 = 5 THEN "LimitReached" ELSE "RESTError")
       ELSE Leave(w, "RESTError", response.statusCode, "RESTError")

\* HTTPSConnection::request returns: the rest of sendRestRequest up to its
\* return, its throw or its sleep before the retry.
requestReturns(w, response, ub) ==
    LET w0 == [w EXCEPT !.restConnection.alive =
                  ~("Connection" \in DOMAIN response.headers
                    /\ response.headers["Connection"] = "close")]
    IN IF response.body = "" THEN Leave(w0, "empty", response.statusCode, "")
       ELSE LET w1 == updateRatelimitsIfPresent(w0, w0.restCall.args.endpoint,
                                                response.headers, ub)
            IN IF ~w1.lockCall.intact THEN Leave(w1, "fault", 0, "")
               ELSE IF response.statusCode \div 100 = 2
               THEN Leave(w1, "json", response.statusCode, "")
               ELSE IF response.statusCode = 429
               THEN [w1 EXCEPT !.restCall.pc = "sleep",
                               !.restCall.wake = w1.now + retry_after(response.body)]
               ELSE throwRestError(w1, response)

\* The calls the application makes.
File == Part("file", "bytes")
Calls ==
    { [via |-> "getGatewayUrl",
       args |-> [NoArgs EXCEPT !.method = "GET", !.endpoint = "/gateway"]],
      [via |-> "sendRestRequest",
       args |-> [NoArgs EXCEPT !.method = "GET", !.endpoint = "/channels/1/messages",
                               !.query = [q \in {"limit"} |-> "1"]]],
      [via |-> "sendRestRequest",
       args |-> [NoArgs EXCEPT !.method = "POST", !.endpoint = "/channels/1/messages",
                               !.payload = "{\"content\":\"hi\"}",
                               !.multipart = <<File>>]] }

SetRest(w) ==
    /\ queue' = w.queue
    /\ ratelimitPointers' = w.ratelimitPointers
    /\ lockCall' = w.lockCall
    /\ restConnection' = w.restConnection
    /\ restCall' = w.restCall

\* The application calls sendRestRequest, directly or through getGatewayUrl,
\* which first puts the Authorization header on the connection.
RestCall ==
    /\ restCall.pc = "idle"
    /\ lockCall.pc = "idle"
    /\ lockCall.intact
    /\ restCall.calls < MaxRestCalls
    /\ \E c \in Calls, ok \in BOOLEAN :
          LET w == [Rest EXCEPT
                       !.restCall = [NoRestCall EXCEPT !.calls = restCall.calls + 1,
                                                       !.original = c.args],
                       !.restConnection.connectionHeaders =
                           IF c.via = "getGatewayUrl"
                           THEN Insert(@, "Authorization", "Bearer token") ELSE @]
          IN SetRest(sendRestRequest(w, c.args, ok))
    /\ UNCHANGED <<gatewayVars, now, restThreads, identifyVars, dispatcherVars>>

\* The sleep inside ratelimitLock.down ends.
RestDownWakes ==
    /\ restCall.pc = "down"
    /\ now >= lockCall.wake
    /\ SetRest([WithLock(Rest, downLeave(Lock)) EXCEPT !.restCall.pc = "request"])
    /\ UNCHANGED <<gatewayVars, now, restThreads, identifyVars, dispatcherVars>>

\* The request goes out and a response or an error comes back.
RestRequest ==
    /\ restCall.pc = "request"
    /\ Len(restCall.sent) < MaxSends
    /\ \E outcome \in Responses \cup {TransportError(code) : code \in ErrorCodes},
          ok \in BOOLEAN, ub \in {"fault", "skip"} :
          LET w == [Rest EXCEPT
                       !.restCall.sent = Append(@, HTTPRequest(restCall.args)),
                       !.restCall.outcomes = Append(@, outcome)]
          IN SetRest(IF outcome.kind = "error" THEN requestThrows(w, outcome.code, ok)
                     ELSE requestReturns(w, outcome, ub))
    /\ UNCHANGED <<gatewayVars, now, restThreads, identifyVars, dispatcherVars>>

\* A retry that does not wait.
RestRetry_early ==
    /\ restCall.pc = "sleep"
    /\ \E ok \in BOOLEAN :
          SetRest(sendRestRequest(Rest, [restCall.args EXCEPT !.multipart = NoMultipart], ok))
    /\ UNCHANGED <<gatewayVars, now, restThreads, identifyVars, dispatcherVars>>

\* The sleep after a 429 ends: sendRestRequest(method, endpoint, payload, query).
RestRetry ==
    /\ restCall.pc = "sleep"
    /\ now >= restCall.wake
    /\ \E ok \in BOOLEAN :
          SetRest(sendRestRequest(Rest, [restCall.args EXCEPT !.multipart = NoMultipart], ok))
    /\ UNCHANGED <<gatewayVars, now, restThreads, identifyVars, dispatcherVars>>

RestNext ==
    \/ RestCall
    \/ RestDownWakes
    \/ RestRequest
    \/ RestRetry
    \/ Tick

\* The application calling the REST client.
RestSpec == Init /\ [][RestNext]_vars

(***************************************************************************)
(* sendRestRequest called by several threads.  The code takes no lock, so  *)
(* the threads interleave at every step; a request is in flight from       *)
(* HTTPSConnection::request's write to the end of its read.                *)
(***************************************************************************)
\* The REST client as the thread t sees it: the shared members, its own call.
AsThread(t) == [Rest EXCEPT !.restCall = restThreads[t].call]

SetThread(t, w, conn) ==
    /\ restThreads' = [restThreads EXCEPT ![t] = [call |-> w.restCall, conn |-> conn]]
    /\ queue' = w.queue
    /\ ratelimitPointers' = w.ratelimitPointers
    /\ lockCall' = w.lockCall
    /\ restConnection' = w.restConnection
    /\ UNCHANGED <<gatewayVars, now, restCall, identifyVars, dispatcherVars>>

\* The thread t calls sendRestRequest.  (No thread is asleep inside the lock.)
ThreadCall(t) ==
    /\ restThreads[t].call.pc = "idle"
    /\ restThreads[t].call.calls < MaxThreadCalls
    /\ lockCall.pc = "idle"
    /\ lockCall.intact
    /\ \E c \in Calls, ok \in BOOLEAN :
          LET w == [AsThread(t) EXCEPT
                       !.restCall = [NoRestCall EXCEPT
                                        !.calls = restThreads[t].call.calls + 1,
                                        !.original = c.args],
                       !.restConnection.connectionHeaders =
                           IF c.via = "getGatewayUrl"
                           THEN Insert(@, "Authorization", "Bearer token") ELSE @]
          IN SetThread(t, sendRestRequest(w, c.args, ok), 0)

\* The sleep of the thread t inside ratelimitLock.down ends.
ThreadDownWakes(t) ==
    /\ restThreads[t].call.pc = "down"
    /\ now >= lockCall.wake
    /\ SetThread(t, [WithLock(AsThread(t), downLeave(Lock)) EXCEPT !.restCall.pc = "request"], 0)

\* HTTPSConnection::request of the thread t writes its request.
ThreadSends(t) ==
    /\ restThreads[t].call.pc = "request"
    /\ Len(restThreads[t].call.sent) < MaxSends
    /\ SetThread(t, [AsThread(t) EXCEPT
                        !.restConnection.alive = FALSE,
                        !.restCall.pc = "inflight",
                        !.restCall.sent = Append(@, HTTPRequest(restThreads[t].call.args))],
                 restConnection.id)

\* HTTPSConnection::request of the thread t reads the response, or fails, and
\* sendRestRequest goes on.  Reading from a connection that another thread
\* has destroyed in the meantime is undefined: any outcome, or a fault.
ThreadReceives(t) ==
    /\ restThreads[t].call.pc = "inflight"
    /\ \E outcome \in Responses \cup {TransportError(code) : code \in ErrorCodes},
          ok \in BOOLEAN, ub \in {"fault", "skip"} :
          LET w == [AsThread(t) EXCEPT !.restCall.outcomes = Append(@, outcome)]
          IN SetThread(t,
                IF restThreads[t].conn # restConnection.id /\ ub = "fault"
                THEN Leave(w, "fault", 0, "")
                ELSE IF outcome.kind = "error" THEN requestThrows(w, outcome.code, ok)
                ELSE requestReturns(w, outcome, ub),
                0)

\* The sleep of the thread t after a 429 ends.
ThreadRetry(t) ==
    /\ restThreads[t].call.pc = "sleep"
    /\ now >= restThreads[t].call.wake
    /\ lockCall.pc = "idle"
    /\ \E ok \in BOOLEAN :
          SetThread(t, sendRestRequest(AsThread(t),
                                       [restThreads[t].call.args EXCEPT
                                           !.multipart = NoMultipart], ok), 0)

ThreadNext ==
    \/ \E t \in Threads : ThreadCall(t)
    \/ \E t \in Threads : ThreadDownWakes(t)
    \/ \E t \in Threads : ThreadSends(t)
    \/ \E t \in Threads : ThreadReceives(t)
    \/ \E t \in Threads : ThreadRetry(t)
    \/ Tick

\* Two threads calling the REST client.
ThreadSpec == Init /\ [][ThreadNext]_vars

(***************************************************************************)
(* One thread drives both clients: it connects the gateway, runs the       *)
(* io_service and calls the REST client.  While it is inside               *)
(* sendRestRequest, in std::this_thread::sleep_for or in the request, it   *)
(* runs no handler of the io_service.  The runs considered: the gateway    *)
(* session is set up first; the application then calls the REST client     *)
(* while the heartbeat loop is running and no handler is ready; the timer  *)
(* expires while the thread is idle or asleep.                             *)
(***************************************************************************)
\* The thread is asleep inside sendRestRequest.
Asleep == restCall.pc \in {"down", "sleep"}

\* The thread is not inside sendRestRequest.
OutsideRest == restCall.pc = "idle"

\* The gateway session is set up before the first REST call.
DriverGateway ==
    /\ restCall.calls = 0
    /\ \/ ClientStep
       \/ AppConnect
       \/ AppDisconnect
       \/ ios_run

DriverGatewaySends ==
    /\ OutsideRest
    /\ \/ GwReady
       \/ GwResumed

DriverTimerExpires ==
    /\ OutsideRest \/ Asleep
    /\ TimerExpires

DriverRestCall ==
    /\ Idle
    /\ ioService.handlers = <<>>
    /\ heartbeatTimer # 0
    /\ RestCall

\* A second passes while the thread sleeps (nothing else reads the clock).
DriverTick ==
    /\ Asleep
    /\ Tick

DriverNext ==
    \/ DriverGateway
    \/ DriverGatewaySends
    \/ DriverTimerExpires
    \/ DriverRestCall
    \/ RestDownWakes
    \/ RestRequest
    \/ RestRetry
    \/ DriverTick

\* One thread driving the gateway client and the REST client.
DriverSpec == Init /\ [][DriverNext]_vars

(***************************************************************************)
(* The Identify payload of GatewayClient::connect.  A JSON object is a     *)
(* function from its keys to the JSON text of their values.                *)
(***************************************************************************)
Tokens == {"MTk4.token", "Bot abc"}
Presences == {"null", "{\"status\":\"idle\"}"}
ShardValues == {NoSharding} \cup 0..MaxShard

\* The JSON text of a string, of a number and of an array of two numbers.
JsonString(str) == "\"" \o str \o "\""
JsonInt(n) == IF n < 0 THEN "-" \o ToString(-n) ELSE ToString(n)
JsonPair(a, b) == "[" \o JsonInt(a) \o "," \o JsonInt(b) \o "]"

\* message.push_back({ key, value })
PushBack(message, key, text) ==
    [k \in DOMAIN message \cup {key} |-> IF k = key THEN text ELSE message[k]]

\* The message connect hands to sendMessage(OpCode::Identify, message), built
\* for a client with token_ = token.  A shard is included when one of the two
\* values is supplied.
IdentifyMessage_eitherShard(token, shardId, shardCount, initialPresense) ==
    LET message ==
            [k \in {"token", "properties", "compress", "large_threshold", "presense"} |->
                CASE k = "token" -> JsonString(token)
                  [] k = "properties" ->
                        "{\"browser\":\"hexicord\",\"device\":\"hexicord\",\"os\":\"unix\"}"
                  [] k = "compress" -> "false"
                  [] k = "large_threshold" -> JsonInt(250)
                  [] OTHER -> initialPresense]
    IN IF shardId # NoSharding \/ shardCount # NoSharding
       THEN PushBack(message, "shard", JsonPair(shardId, shardCount))
       ELSE message

\* The message connect hands to sendMessage(OpCode::Identify, message), built
\* for a client with token_ = token.
IdentifyMessage(token, shardId, shardCount, initialPresense) ==
    LET message ==
            [k \in {"token", "properties", "compress", "large_threshold", "presense"} |->
                CASE k = "token" -> JsonString(token)
                  [] k = "properties" ->
                        "{\"browser\":\"hexicord\",\"device\":\"hexicord\",\"os\":\"unix\"}"
                  [] k = "compress" -> "false"
                  [] k = "large_threshold" -> JsonInt(250)
                  [] OTHER -> initialPresense]
    IN IF shardId # NoSharding /\ shardCount # NoSharding
       THEN PushBack(message, "shard", JsonPair(shardId, shardCount))
       ELSE message

\* A client constructed with some token calls connect with some shard.
BuildIdentify ==
    /\ \E token \in Tokens, shardId \in ShardValues, shardCount \in ShardValues,
          initialPresense \in Presences :
          identifyCall' = [token |-> token, shardId |-> shardId, shardCount |-> shardCount,
                           initialPresense |-> initialPresense,
                           message |-> IdentifyMessage(token, shardId, shardCount,
                                                       initialPresense)]
    /\ UNCHANGED <<gatewayVars, restVars, dispatcherVars>>

IdentifyNext == BuildIdentify

\* connect's Identify message for every token and shard.
IdentifySpec == Init /\ [][IdentifyNext]_vars

(***************************************************************************)
(* The event dispatcher (event_dispatcher.cpp).  The application registers *)
(* handlers, and events are dispatched by the name the gateway gave them.  *)
(* A handler is known by the number of its registration; the calls of the  *)
(* last dispatch are kept in the order they were made.                     *)
(***************************************************************************)

\* A call of a handler with its arguments.
HandlerCall(handler, args) == [handler |-> handler, args |-> args]

\* Variant of addHandler that puts the handler in front of the others.
addHandler_front(d, eventType, handler) ==
    [d EXCEPT !.handlers[eventType] = <<handler>> \o @]

\* handlers[eventType].push_back(handler)
addHandler(d, eventType, handler) ==
    [d EXCEPT !.handlers[eventType] = Append(@, handler)]

\* unknownEventHandlers.push_back(handler)
addUnknownEventHandler(d, handler) ==
    [d EXCEPT !.unknownEventHandlers = Append(@, handler)]

\* The calls EventDispatcher::dispatchEvent makes, in order: the unknown-event
\* handlers with the name and the payload when the table does not hold the
\* name, else the handlers of the event with the payload.
dispatchEventCalls(d, type, payload) ==
    IF type \notin DOMAIN stringToEnum
    THEN [i \in 1..Len(d.unknownEventHandlers) |->
             HandlerCall(d.unknownEventHandlers[i], <<type, payload>>)]
    ELSE LET list == d.handlers[stringToEnum[type]]
         IN  [i \in 1..Len(list) |-> HandlerCall(list[i], <<payload>>)]

\* The application registers a handler for an event.
AddHandler ==
    /\ eventDispatcher.registered < MaxHandlers
    /\ \E eventType \in Events :
          eventDispatcher' =
              [addHandler(eventDispatcher, eventType, eventDispatcher.registered + 1)
                  EXCEPT !.registered = @ + 1]
    /\ UNCHANGED <<gatewayVars, restVars, identifyVars>>

\* The application registers a handler for events the table does not hold.
AddUnknownEventHandler ==
    /\ eventDispatcher.registered < MaxHandlers
    /\ eventDispatcher' =
           [addUnknownEventHandler(eventDispatcher, eventDispatcher.registered + 1)
               EXCEPT !.registered = @ + 1]
    /\ UNCHANGED <<gatewayVars, restVars, identifyVars>>

\* An event is dispatched: every call is made before dispatchEvent returns.
DispatchEvent ==
    /\ eventDispatcher.dispatches < MaxDispatches
    /\ \E type \in EventNames, payload \in Payloads :
          eventDispatcher' =
              [eventDispatcher EXCEPT !.dispatches = @ + 1, !.type = type,
                                      !.payload = payload,
                                      !.calls = dispatchEventCalls(eventDispatcher, type, payload)]
    /\ UNCHANGED <<gatewayVars, restVars, identifyVars>>

DispatcherNext == AddHandler \/ AddUnknownEventHandler \/ DispatchEvent

\* The event dispatcher driven by the application and by events.
DispatcherSpec == Init /\ [][DispatcherNext]_vars

Max(S) == CHOOSE x \in S : \A y \in S : y <= x

IsProcess(e) == e.k = "process"
IsProcessedDispatch(e) == e.k = "process" /\ e.op = EventDispatch
IsSent(e, opCode) == e.k = "send" /\ e.op = opCode
\* connect dispatched Ready: a fresh session starts.
IsSessionStart(e) == e.k = "dispatch" /\ e.by = "connect"
\* connect or resume completed its wait: the sequence number is (re)set.
IsSeqReset(e) == e.k = "dispatch" /\ e.by \in {"connect", "resume"}

\* The last position up to n whose entry satisfies P, 0 if there is none.
LastBefore(n, P(_)) ==
    LET I == {i \in 1..n : P(log[i])} IN IF I = {} THEN 0 ELSE Max(I)

\* C5: lastSequenceNumber() is the maximum s of the Dispatch messages processed
\* since the counter was last set by connect or resume.
C5_LastSeqIsMaximum ==
    LET r == LastBefore(Len(log), IsSeqReset)
        S == {log[i].seq : i \in {j \in (r + 1)..Len(log) : IsProcessedDispatch(log[j])}}
    IN S # {} => lastSequenceNumber_ = Max(S)

\* C10: a Dispatch whose event name is unknown reaches the handlers (the
\* unknown-event sink) and never ends the process.
C10_UnknownEventRouted ==
    \A i \in DOMAIN log :
        (IsProcessedDispatch(log[i]) /\ log[i].t \notin KnownEvents)
            => /\ status = "alive"
               /\ \E j \in (i + 1)..Len(log) :
                     log[j].k = "dispatch" /\ log[j].id = log[i].id

\* C8: disconnect(code) never fails: whenever the application's last call is
\* disconnect, the process is alive, both loop flags are false, the Connection is
\* released, and with NoCloseEvent no close message was sent by the call.
C8_DisconnectNeverFails ==
    app.call = "disconnect"
        => /\ status = "alive"
           /\ ~heartbeat /\ ~poll
           /\ gatewayConnection = "null"
           /\ app.arg = NoCloseEvent => Len(log) = app.mark

\* C4: every Resume that recoverConnection sends carries the id of the current
\* session (the one of the last Ready) and, when a Dispatch was processed in
\* that session, the s of the most recent one.
C4_ResumeCarriesLastDispatch ==
    \A i \in DOMAIN log :
        (IsSent(log[i], Resume) /\ log[i].by = "recoverConnection")
            => LET r == LastBefore(i, IsSessionStart)
                   d == LastBefore(i, IsProcessedDispatch)
               IN /\ r # 0 => log[i].sid = log[r].id
                  /\ d > r => log[i].seq = log[d].seq

\* C9: a message that waitForEvent hands to processMessage is processed exactly
\* once, and the awaited Ready/Resumed is dispatched exactly once and is not
\* processed as well.
C9_ProcessedExactlyOnce ==
    \A i \in DOMAIN log : \A j \in DOMAIN log :
        (i # j /\ log[i].id = log[j].id)
            => /\ ~(IsProcess(log[i]) /\ log[i].by = "waitForEvent" /\ IsProcess(log[j]))
               /\ ~(IsSeqReset(log[i]) /\ (IsSeqReset(log[j]) \/ IsProcess(log[j])))

C7_QuietAfterDisconnect ==
    [][(app.last = "disconnect" /\ app'.last = "disconnect") => log' = log]_vars

\* After disconnect, the io_service runs a handler that was queued with
\* success before the call: a timer expiry, or a read completion with a Dispatch.
C7_Witness ==
    /\ app.last = "disconnect"
    /\ At({"asyncPoll_cb", "asyncHeartbeat_cb"})
    /\ stack[Len(stack)].ev = "ok"
    /\ stack[Len(stack)].pc = "asyncPoll_cb" => stack[Len(stack)].m.op = EventDispatch

InboxHolds(opCode, t) ==
    \E i \in DOMAIN gateway.inbox :
        gateway.inbox[i].op = opCode /\ gateway.inbox[i].t = t

\* The heartbeat loop and the read loop are running.
LoopsStarted ==
    /\ heartbeat /\ poll
    /\ heartbeatTimer # 0
    /\ ioService.reads > 0 \/ \E i \in DOMAIN ioService.handlers :
                                  ioService.handlers[i].h = "read"

\* C1: connect as the first call on a new client, answered with Hello and then
\* Ready, returns, with the session id of the Ready, sequence number 0 and both
\* loops started.
C1_FreshConnectReturns ==
    (app.calls = 1 /\ app.call = "connect" /\ InboxHolds(EventDispatch, "READY"))
        ~> (/\ app.calls = 1 /\ app.call = "connect" /\ app.result = "ok"
            /\ sessionId_ # 0 /\ lastSequenceNumber_ = 0
            /\ LoopsStarted
            \/ InboxHolds(InvalidSession, ""))

\* C6: when the gateway answers the Identify of connect with InvalidSession,
\* connect fails with GatewayError and has started neither loop.
C6_InvalidSessionFailsConnect ==
    (app.call = "connect" /\ app.result = "pending"
        /\ InboxHolds(InvalidSession, "") /\ ~InboxHolds(EventDispatch, "READY"))
        ~> (/\ app.call = "connect" /\ app.result = "GatewayError"
            /\ heartbeatTimer = 0 /\ ioService.reads = 0)

\* recoverConnection has caught the GatewayError of its resume and called connect.
InFallback == \E i \in DOMAIN stack : stack[i].pc = "recoverConnection_ret"

\* C2: once recoverConnection falls back to connect after a rejected resume, it
\* completes with a fresh session and both loops running.
C2_FallbackReachesReady ==
    InFallback
        ~> (/\ ~InFallback
            /\ sessionId_ # 0
            /\ log # <<>> /\ IsSessionStart(log[Len(log)])
            /\ LoopsStarted)

\* C11: a transport error reaches the application only from its first attempt
\* to connect: once a session exists (a connect or resume has completed), no
\* call of the application, the io_service's run included, ends with a
\* system_error.
C11_TransportErrorOnlyFromFirstConnect ==
    app.result = "system_error"
        => /\ app.call \in {"connect", "resume"}
           /\ ~\E i \in DOMAIN log : IsSeqReset(log[i])

\* What the accessors return for a route.
Record(route) == <<remaining(route), total(route), resetTime(route)>>

\* The stored nodes of the routes other than route.
NodesOfOthers(route) == SelectSeq(queue, LAMBDA x : x.route # route)

\* C12: a down that takes a route's remaining to 0 before the reset time
\* does not return at once; it returns only when the reset time has been
\* reached, and the route's record is then gone.
C12_DownBlocksUntilReset ==
    [][\A route \in Routes :
        /\ (/\ lockCall'.downs = lockCall.downs + 1
            /\ lockCall'.route = route
            /\ remaining(route) = 1
            /\ resetTime(route) > now)
           => /\ lockCall'.pc = "sleep"
              /\ lockCall'.wake = resetTime(route)
        /\ (lockCall.pc = "sleep" /\ lockCall'.pc = "idle" /\ lockCall.route = route)
           => /\ now' >= lockCall.wake
              /\ route \notin DOMAIN ratelimitPointers'
              /\ Record(route)' = <<-1, -1, -1>>]_vars

\* A down that slept has returned.
C12_Witness ==
    /\ lockCall.op = "down"
    /\ lockCall.hit
    /\ lockCall.pc = "idle"
    /\ now >= 1
    /\ lockCall.route \notin DOMAIN ratelimitPointers

\* C13: a down on a route changes the record of no other route; it takes
\* one from the remaining of the route's own record (the record is removed
\* when that reaches 0 at or after the reset time), and with no record for
\* the route it changes nothing and returns at once.
C13_DownTouchesOnlyItsRoute ==
    [][\A route \in Routes :
        (lockCall'.downs = lockCall.downs + 1 /\ lockCall'.route = route) =>
           /\ \A other \in Routes \ {route} : Record(other)' = Record(other)
           /\ NodesOfOthers(route)' = NodesOfOthers(route)
           /\ IF route \in DOMAIN ratelimitPointers
              THEN \/ Record(route)' = <<remaining(route) - 1, total(route), resetTime(route)>>
                   \/ /\ remaining(route) = 1
                      /\ resetTime(route) <= now
                      /\ Record(route)' = <<-1, -1, -1>>
              ELSE /\ queue' = queue
                   /\ ratelimitPointers' = ratelimitPointers
                   /\ lockCall'.pc = "idle"]_vars

\* A down has taken one from a route's remaining while another route is stored.
C13_Witness ==
    /\ lockCall.op = "down"
    /\ lockCall.pc = "idle"
    /\ lockCall.route \in DOMAIN ratelimitPointers
    /\ remaining(lockCall.route) = MaxRemaining - 1
    /\ DOMAIN ratelimitPointers # {lockCall.route}

\* The node the last refreshInfo stored: its arguments.
Refreshed == queue[Len(queue)]

\* C14: after refreshInfo(route, r, t, reset) returns, the accessors report
\* r, t and reset for the route, whether the route was new or already stored.
C14_RefreshSetsRecord ==
    (lockCall.op = "refreshInfo" /\ lockCall.intact) =>
        Record(lockCall.route) =
            <<Refreshed.remaining, Refreshed.total, Refreshed.resetTime>>

\* C15: neither the index nor the queue ever holds more than
\* HEXICORD_RATELIMIT_CACHE_SIZE records.
C15_CacheBounded ==
    /\ Cardinality(DOMAIN ratelimitPointers) <= HEXICORD_RATELIMIT_CACHE_SIZE
    /\ Len(queue) <= HEXICORD_RATELIMIT_CACHE_SIZE

\* The stored routes, least recently refreshed first.
ByLastRefresh == SelectSeq(lockCall.refreshed, LAMBDA x : x \in DOMAIN ratelimitPointers)

\* C16: a refreshInfo that inserts a new route into a full cache evicts
\* exactly one route, the one whose last refresh is the oldest.
C16_EvictsLeastRecentlyRefreshed ==
    [][\A route \in Routes :
        (/\ lockCall'.nodes = lockCall.nodes + 1
         /\ lockCall'.route = route
         /\ route \notin DOMAIN ratelimitPointers
         /\ Cardinality(DOMAIN ratelimitPointers) = HEXICORD_RATELIMIT_CACHE_SIZE)
        => DOMAIN ratelimitPointers' =
              (DOMAIN ratelimitPointers \ {Head(ByLastRefresh)}) \cup {route}]_vars

\* What the last request of the call brought back.
LastOutcome == restCall.outcomes[Len(restCall.outcomes)]

QuotaHeaderNames == {"X-RateLimit-Remaining", "X-RateLimit-Limit", "X-RateLimit-Reset"}

\* C17: once sendRestRequest has dealt with a response that carries the three
\* quota headers, the record of the request's route holds the headers' values,
\* whatever the response's body, status or remaining value.
C17_ResponseRefreshesRecord ==
    (/\ restCall.pc \in {"idle", "sleep"}
     /\ restCall.outcomes # <<>>
     /\ lockCall.intact
     /\ LastOutcome.kind = "response"
     /\ QuotaHeaderNames \subseteq DOMAIN LastOutcome.headers)
    => Record(getRatelimitDomain(restCall.args.endpoint)) =
          <<stoi(LastOutcome.headers["X-RateLimit-Remaining"]),
            stoi(LastOutcome.headers["X-RateLimit-Limit"]),
            stoi(LastOutcome.headers["X-RateLimit-Reset"])>>

\* A request has just come back.
Answered == Len(restCall'.outcomes) = Len(restCall.outcomes) + 1

C19_RetrySendsSameRequest ==
    \A i \in DOMAIN restCall.sent : restCall.sent[i] = HTTPRequest(restCall.original)

C21_ErrorStatusRaisesTypedError ==
    (/\ restCall.pc = "idle"
     /\ restCall.outcomes # <<>>
     /\ LastOutcome.kind = "response"
     /\ LastOutcome.statusCode \div 100 # 2
     /\ LastOutcome.statusCode # 429)
    => /\ restCall.result.kind = "RESTError"
       /\ restCall.result.code \in {"UnknownEntity", "LimitReached", "InvalidParameter",
                                    "RESTError"}

\* The threads whose request is in flight.
InFlight == {t \in Threads : restThreads[t].call.pc = "inflight"}

\* C22: calls of sendRestRequest from several threads serialize: at most one
\* request is in flight on the REST connection, and the connection a request
\* is in flight on is still the REST connection (it has not been replaced).
C22_RestCallsSerialize ==
    /\ Cardinality(InFlight) <= 1
    /\ \A t \in InFlight : restThreads[t].conn = restConnection.id

\* The heartbeat timer has expired and its handler has not run yet.
HeartbeatDue ==
    /\ heartbeat
    /\ \E i \in DOMAIN ioService.handlers :
          ioService.handlers[i].h = "timer" /\ ioService.handlers[i].ec = "ok"

\* C23: a wait inside a REST call (the sleep of RatelimitLock::down, the
\* sleep after a 429) does not end while a heartbeat that became due during
\* the wait is still unsent.
C23_HeartbeatSentDuringWait ==
    [][(Asleep /\ HeartbeatDue) => (Asleep' \/ ~HeartbeatDue')]_vars

\* Reading a payload back: the string and the pair of numbers a JSON text stands for.
ParseString(text) == CHOOSE str \in Tokens : JsonString(str) = text
ParsePair(text) ==
    CHOOSE pair \in ShardValues \X ShardValues : JsonPair(pair[1], pair[2]) = text

\* connect was called with both a shard id and a shard count.
ShardSupplied == identifyCall.shardId # NoSharding /\ identifyCall.shardCount # NoSharding

\* C24: the Identify payload carries the token it was built with, and the
\* shard [shardId, shardCount] exactly when both values were supplied;
\* read back, the payload gives that token and that shard.
C24_IdentifyRoundTrip ==
    identifyCall # NoIdentify =>
        /\ ParseString(identifyCall.message["token"]) = identifyCall.token
        /\ ("shard" \in DOMAIN identifyCall.message) <=> ShardSupplied
        /\ ShardSupplied =>
              ParsePair(identifyCall.message["shard"]) =
                  <<identifyCall.shardId, identifyCall.shardCount>>

\* An Identify payload was built for a supplied shard and carries it.
C24_Witness ==
    /\ identifyCall # NoIdentify
    /\ identifyCall.shardId = MaxShard
    /\ identifyCall.shardCount = MaxShard
    /\ "shard" \in DOMAIN identifyCall.message

\* The log entries where connect or resume completed a session, the handshake
\* messages sent, and the sessions that a recoverConnection established.
SessionStarts ==
    {i \in DOMAIN log : log[i].k = "dispatch" /\ log[i].by \in {"connect", "resume"}}
Handshakes ==
    {i \in DOMAIN log : log[i].k = "send" /\ log[i].op \in {Identify, Resume}}
Recoveries ==
    {i \in SessionStarts :
        \E j \in Handshakes :
            /\ j < i
            /\ log[j].by = "recoverConnection"
            /\ \A k \in Handshakes : k < i => k <= j}
LastRecovery == CHOOSE i \in Recoveries : \A j \in Recoveries : j <= i
HeartbeatsSince(i) ==
    Cardinality({j \in DOMAIN log : j > i /\ log[j].k = "send" /\ log[j].op = Heartbeat})

\* The gateway has answered no heartbeat, so the counter never went down.
NoAckSeen == \A i \in DOMAIN log : ~(log[i].k = "process" /\ log[i].op = HeartbeatAck)

\* sendHeartbeat has just called recoverConnection.
HeartbeatRecovers == At({"recoverConnection"}) /\ stack[Len(stack)].by = "sendHeartbeat"

\* C25: once a recovery has re-established the session, the heartbeat firing
\* starts another recovery only after two heartbeats were sent on the new
\* connection.
C25_RecoveryOncePerDeadLink ==
    (HeartbeatRecovers /\ Recoveries # {} /\ NoAckSeen) => HeartbeatsSince(LastRecovery) >= 2

\* The timer handler is about to run for an expired wait with heartbeat set;
\* processMessage is about to take a HeartbeatAck; the connection can send.
Firing == At({"asyncHeartbeat_cb"}) /\ stack[Len(stack)].ev # "aborted" /\ heartbeat
AckArrives == At({"processMessage"}) /\ stack[Len(stack)].m.op = HeartbeatAck
CanSend == gatewayConnection # "null" /\ gateway.linkUp

\* C26: a heartbeat firing with two or more unanswered heartbeats sends
\* nothing and calls recoverConnection; with fewer it sends one Heartbeat
\* carrying lastSequenceNumber and adds 1 to the counter; a HeartbeatAck takes
\* 1 off the counter.
C26_HeartbeatCounting ==
    [][/\ (Firing /\ unansweredHeartbeats >= 2) =>
              /\ log' = log
              /\ unansweredHeartbeats' = unansweredHeartbeats
              /\ stack'[Len(stack')].pc = "recoverConnection"
              /\ stack'[Len(stack')].by = "sendHeartbeat"
       /\ (Firing /\ unansweredHeartbeats < 2 /\ CanSend) =>
              /\ log' = Append(log, Entry("send", Heartbeat, "", 0, 0, lastSequenceNumber_,
                                          "sendHeartbeat"))
              /\ unansweredHeartbeats' = unansweredHeartbeats + 1
       /\ AckArrives => unansweredHeartbeats' = unansweredHeartbeats - 1]_vars

\* connect, resume or waitForEvent is in a blocking readMessage().
BlockingRead ==
    \/ At({"connect_readHello", "resume_readHello"})
    \/ At({"waitForEvent"}) /\ ~poll

\* C27: at most one asynchronous read is armed on the gateway connection, and
\* none is armed while connect, resume or waitForEvent reads it blocking.
C27_OneOutstandingReceive ==
    /\ ioService.reads <= 1
    /\ BlockingRead => ioService.reads = 0

\* The frames of recoverConnection, and the read callback's frames.
RecoverPcs ==
    {"recoverConnection", "recoverConnection_try", "recoverConnection_catch",
     "recoverConnection_ret"}
AsyncPollPcs ==
    {"asyncPoll_cb", "asyncPoll_parse", "asyncPoll_try", "asyncPoll_catch", "asyncPoll_rearm"}

\* The read callback at stack[i] runs for a receive that failed: a transport
\* error, or a frame that does not parse.
FailedReceive(i) ==
    /\ stack[i].pc \in AsyncPollPcs
    /\ stack[i].ev = "reset" \/ stack[i].m.op = Garbage

\* C28: the read callback of a receive that ended with a transport error or
\* with an unparsable frame calls recoverConnection once, and hands nothing
\* of that receive to processMessage.  (The call made on the transport error
\* returns to asyncPoll_parse; the one made by the parse error handler
\* returns to asyncPoll_rearm.)
C28_FailedReceiveRecoversOnce ==
    \A i \in 1..(Len(stack) - 1) :
        FailedReceive(i) =>
            /\ stack[i + 1].pc # "processMessage"
            /\ (stack[i].ev = "reset" /\ stack[i + 1].pc \in RecoverPcs) =>
                   stack[i].pc = "asyncPoll_parse"

\* processMessage is about to take a Reconnect; the resume it started is
\* waiting for RESUMED and processMessage is about to take an InvalidSession.
ReconnectArrives == At({"processMessage"}) /\ stack[Len(stack)].m.op = Reconnect
ReconnectResumeRejected ==
    /\ At({"processMessage"})
    /\ stack[Len(stack)].m.op = InvalidSession
    /\ \E i \in DOMAIN stack : stack[i].pc = "resume_resumed" /\ stack[i].by = "processMessage"

\* C29: on a Reconnect the client disconnects without sending a close event
\* and resumes with the stored session id and sequence number; when that
\* resume is rejected with InvalidSession it falls back to connect.
C29_ReconnectRecovers ==
    [][/\ ReconnectArrives =>
              /\ \A i \in DOMAIN log' :
                    i > Len(log) => ~(log'[i].k = "send" /\ log'[i].t = "CLOSE")
              /\ stack'[Len(stack')].pc = "resume"
              /\ stack'[Len(stack')].sid = sessionId_
              /\ stack'[Len(stack')].seq = lastSequenceNumber_
       /\ ReconnectResumeRejected =>
              \E i \in DOMAIN stack' : stack'[i].pc \in {"recoverConnection_catch", "connect"}]_vars

\* The timer handler has sent its heartbeat or started its recovery and has
\* asyncHeartbeat() still to call; the handler runs for a cancelled wait.
Rearming == \E i \in DOMAIN stack : stack[i].pc = "asyncHeartbeat_rearm"
CancelledWaitRuns == At({"asyncHeartbeat_cb"}) /\ stack[Len(stack)].ev = "aborted"

\* C30: a firing with the heartbeat flag set ends with one new wait pending
\* on the timer, also when it ran recoverConnection, and the handler of a
\* cancelled wait sends nothing and leaves the timer alone.
C30_OneWaitAfterEachFiring ==
    [][/\ ((Firing \/ Rearming) /\ Running') =>
              (Rearming' \/ ~heartbeat' \/ heartbeatTimer' # 0)
       /\ CancelledWaitRuns =>
              (log' = log /\ heartbeatTimer' = heartbeatTimer)]_vars

\* connect or resume is at its first step: the handshakes it makes.
Connecting == At({"connect", "resume"})

\* C31: connect and resume make the transport handshake only when the
\* connection is not open, and at most once in a call.
C31_HandshakeOnlyWhenClosed ==
    [][Connecting =>
          /\ gateway'.conn <= gateway.conn + 1
          /\ gatewayConnection # "null" => gateway'.conn = gateway.conn]_vars

\* This step puts an Identify or a Resume on the wire; the message a blocking
\* read of this step takes.
SendsHandshake ==
    /\ Len(log') = Len(log) + 1
    /\ log'[Len(log')].k = "send"
    /\ log'[Len(log')].op \in {Identify, Resume}
NextMessage == IF gateway.inbox = <<>> THEN NullMsg ELSE Head(gateway.inbox)

\* C32: connect and resume send Identify or Resume only once they have read
\* the Hello of the connection, and the heartbeat timer is armed with the
\* heartbeat_interval of that Hello.
C32_HelloBeforeHandshake ==
    [][/\ SendsHandshake =>
              /\ At({"connect_readHello", "resume_readHello"})
              /\ NextMessage.op = Hello
              /\ NextMessage.d = HelloInterval(gateway.conn)
       /\ (heartbeatTimer' # 0 /\ heartbeatTimer' # heartbeatTimer) =>
              heartbeatTimer' = HelloInterval(gateway'.conn)]_vars

\* The connect that recoverConnection fell back to has sent Identify, and the
\* heartbeat timer is armed on that connection.
C32_Witness ==
    /\ heartbeatTimer # 0
    /\ gateway.state = "session"
    /\ \E i \in DOMAIN log :
          log[i].k = "send" /\ log[i].op = Identify /\ log[i].by = "recoverConnection"

\* This step is a call of down(route).
DownCalled(route) ==
    /\ lockCall.pc = "idle"
    /\ lockCall'.op = "down"
    /\ lockCall'.downs = lockCall.downs + 1
    /\ lockCall'.route = route

\* C33: a down that takes the last request of a record whose reset time has
\* passed evicts the record at once and returns without waiting.
C33_OutdatedRecordEvictedAtOnce ==
    [][\A route \in Routes :
          (/\ DownCalled(route)
           /\ route \in DOMAIN ratelimitPointers
           /\ Pointee(Lock, route).remaining = 1
           /\ Pointee(Lock, route).resetTime <= now) =>
              /\ route \notin DOMAIN ratelimitPointers'
              /\ \A i \in DOMAIN queue' : queue'[i].node # ratelimitPointers[route]
              /\ lockCall'.pc = "idle"
              /\ ~lockCall'.hit
              /\ now' = now]_vars

\* The only record ever stored was taken to 0 by the only down, which did not
\* sleep: its reset time had passed.
C33_Witness ==
    /\ lockCall.op = "down"
    /\ lockCall.pc = "idle"
    /\ ~lockCall.hit
    /\ lockCall.downs = 1
    /\ lockCall.nodes = 1
    /\ queue = <<>>
    /\ now = MaxTime

\* C34: down never raises the remaining of a record: the value stored after a
\* down on an existing record is strictly lower than before, also when the
\* stored value was 0.
C34_DownNeverRaisesRemaining ==
    [][\A route \in Routes :
          (/\ DownCalled(route)
           /\ route \in DOMAIN ratelimitPointers
           /\ route \in DOMAIN ratelimitPointers') =>
              Pointee(Lock, route)'.remaining < Pointee(Lock, route).remaining]_vars

\* The call ends with an error for the response, or starts its retry.
RaisesOrRetries == restCall'.result.kind = "RESTError" \/ restCall'.pc = "sleep"

\* C35: a request goes out only after down for its route has returned, and
\* when its response carries the quota headers the record is refreshed from
\* them before the call raises an error or starts a retry for it.
C35_DownBeforeSendRefreshBeforeRaise ==
    [][Answered =>
          /\ restCall.pc = "request"
          /\ lockCall.pc = "idle"
          /\ lockCall.op = "down"
          /\ lockCall.route = getRatelimitDomain(restCall.args.endpoint)
          /\ (/\ LastOutcome'.kind = "response"
              /\ QuotaHeaderNames \subseteq DOMAIN LastOutcome'.headers
              /\ RaisesOrRetries) =>
                 /\ lockCall'.op = "refreshInfo"
                 /\ lockCall'.nodes = lockCall.nodes + 1]_vars

\* A request has just failed with a dropped-connection error; the call goes on
\* to another attempt on a new connection; opening the new connection failed.
DroppedNow == Answered /\ LastOutcome'.kind = "error" /\ LastOutcome'.code \in Dropped
TriesAgain ==
    /\ restCall'.pc \in {"down", "request"}
    /\ restCall'.result = NoResult
    /\ restConnection'.id = restConnection.id + 1
ReopenFailed ==
    /\ restCall'.pc = "idle"
    /\ restCall'.result = [kind |-> "system_error", statusCode |-> 0, code |-> "connect"]

\* C36 as stated: an attempt that fails with a dropped-connection error never
\* ends the call; whatever the number of attempts made, the connection is
\* reopened and the request tried again.
C36_DroppedNeverEndsCall == [][DroppedNow => TriesAgain]_vars

\* C36, amended: the same, unless opening the new connection fails, in which
\* case that error reaches the caller.
C36_DroppedRetriedUnlessReopenFails == [][DroppedNow => (TriesAgain \/ ReopenFailed)]_vars

\* Every attempt of a call was dropped and the call is about to try again.
C36_Witness ==
    /\ restCall.pc = "request"
    /\ Len(restCall.outcomes) = MaxSends
    /\ \A i \in DOMAIN restCall.outcomes :
          restCall.outcomes[i].kind = "error" /\ restCall.outcomes[i].code \in Dropped
    /\ restCall.result = NoResult


\* The step is a call of dispatchEvent.
Dispatches == eventDispatcher'.dispatches = eventDispatcher.dispatches + 1

\* The handlers registered with addHandler for the event of the given name,
\* in the order of their registration (numbers grow with each registration).
RegisteredFor(type) ==
    IF type \in DOMAIN stringToEnum THEN eventDispatcher.handlers[stringToEnum[type]] ELSE <<>>

\* Every handler registered with addHandler, for whatever event.
RegisteredWithAddHandler ==
    UNION {{eventDispatcher.handlers[e][i] : i \in DOMAIN eventDispatcher.handlers[e]} :
              e \in Events}

\* C37: dispatching an event invokes every handler registered with addHandler
\* for that event type exactly once, in registration order, with the event's
\* payload, before the dispatch returns, and invokes no handler registered
\* with addHandler for a different event type.
C37_DispatchInvokesRegisteredInOrder ==
    [][\A type \in EventNames :
          (Dispatches /\ eventDispatcher'.type = type) =>
              LET calls == eventDispatcher'.calls
                  own == {c \in DOMAIN calls : calls[c].handler \in RegisteredWithAddHandler}
              IN  /\ \A i \in DOMAIN RegisteredFor(type) :
                        Cardinality({c \in own : calls[c].handler = RegisteredFor(type)[i]}) = 1
                  /\ \A c \in own :
                        /\ \E i \in DOMAIN RegisteredFor(type) :
                              calls[c].handler = RegisteredFor(type)[i]
                        /\ calls[c].args = <<eventDispatcher'.payload>>
                  /\ \A c, d \in own : c < d => calls[c].handler < calls[d].handler]_vars

\* A MESSAGE_CREATE event was dispatched to its two handlers while a third
\* handler was registered for another event.
C37_Witness ==
    /\ eventDispatcher.type = "MESSAGE_CREATE"
    /\ Len(eventDispatcher.handlers["MessageCreate"]) = 2
    /\ Len(eventDispatcher.handlers["Ready"]) = 1
    /\ eventDispatcher.handlers["Ready"][1] < eventDispatcher.handlers["MessageCreate"][2]
    /\ Len(eventDispatcher.calls) = 2
    /\ eventDispatcher.dispatches = MaxDispatches

\* C38: the unanswered-heartbeat counter never wraps below 0: a HeartbeatAck
\* never raises it, and one that arrives when no heartbeat is outstanding
\* leaves it below 2, the value from which the next firing recovers.
C38_AckNeverWrapsCounter ==
    [][AckArrives =>
          /\ unansweredHeartbeats' <= unansweredHeartbeats
          /\ unansweredHeartbeats = 0 => unansweredHeartbeats' < 2]_vars

\* C39: the index and the queue describe the same records: every node of the
\* queue is the one the index entry of its route points to, every index entry
\* points to a node of the queue that holds its route, and no eviction of the
\* queue's front has missed its index entry.
C39_IndexAndQueueAgree ==
    /\ \A i \in DOMAIN queue :
          /\ queue[i].route \in DOMAIN ratelimitPointers
          /\ ratelimitPointers[queue[i].route] = queue[i].node
    /\ \A route \in DOMAIN ratelimitPointers :
          \E i \in DOMAIN queue :
              queue[i].node = ratelimitPointers[route] /\ queue[i].route = route
    /\ lockCall.intact

\* The step ends a resume that succeeded: Resumed is dispatched and the
\* heartbeat and the polling are started.
ResumeSucceeds ==
    /\ At({"resume_resumed"})
    /\ Len(log') = Len(log) + 1
    /\ log'[Len(log')].k = "dispatch" /\ log'[Len(log')].by = "resume"
    /\ poll' /\ heartbeat'
    /\ status' = "alive"

\* The Resume message of the resume in progress, and the sequence numbers of
\* the Dispatch events the client processed since it was sent.
LastResume == CHOOSE i \in DOMAIN log :
                  /\ log[i].k = "send" /\ log[i].op = Resume
                  /\ \A j \in DOMAIN log : (log[j].k = "send" /\ log[j].op = Resume) => j <= i
Replayed ==
    {log[i].seq : i \in {j \in DOMAIN log : /\ j > LastResume
                                            /\ log[j].k = "process"
                                            /\ log[j].op = EventDispatch}}

\* C40: when a resume succeeds, lastSequenceNumber() is at least the highest
\* sequence number of the Dispatch events the gateway replayed before Resumed.
C40_ResumeKeepsReplayedSequence ==
    [][ResumeSucceeds => \A s \in Replayed : lastSequenceNumber_' >= s]_vars

====
